---- MODULE Spec2Model ----
(***************************************************************************)
(* C-MORP decision kernel: the Guard Rail (src/src/guard_rail.py) and the  *)
(* Solver Bridge (src/src/solver_bridge.py).                               *)
(*                                                                         *)
(* Python floats are modelled as exact rationals [num, den] in lowest      *)
(* terms with den > 0, so 49.5 is Rat(99, 2) and 0.95 is Rat(19, 20).      *)
(* Rounding of IEEE doubles and NaN/inf are outside the model.             *)
(***************************************************************************)
EXTENDS Integers, Sequences, FiniteSets, TLC

VARIABLES
    constraints,       \* GuardRail.constraints: component -> list of Constraint
    violation_count,   \* GuardRail.violation_count
    blocked_actions,   \* GuardRail.blocked_actions
    solve_count,       \* SolverBridge.solve_count
    total_solve_time,  \* SolverBridge.total_solve_time (ms)
    failed_solves,     \* SolverBridge.failed_solves
    optimize_history,  \* the optimize_energy_schedule calls made so far, each
                       \* with its arguments, its outcome and its result
    base_intensity,    \* CarbonReporter.base_intensity
    metrics_history,   \* CarbonReporter.metrics_history
    webhook_url,       \* AlertBroker.webhook_url
    redis,             \* the keys the AlertBroker has set in Redis
    mqtt_published,    \* the messages it has published over MQTT
    escalated,         \* the alerts it has handed to _escalate_alert
    webhook_posts,     \* the requests it has posted to the webhook
    now,               \* datetime.now(), in hours
    pc,                \* "idle" | "called" | "returned" | "raised"
    call,              \* the operation last called, with its arguments
    ret,               \* what that call returned
    ncalls             \* number of calls made so far

vars == <<constraints, violation_count, blocked_actions, solve_count,
          total_solve_time, failed_solves, optimize_history, base_intensity,
          metrics_history, webhook_url, redis, mqtt_published, escalated,
          webhook_posts, now, pc, call, ret, ncalls>>

guardVars == <<constraints, violation_count, blocked_actions>>
solverVars == <<solve_count, total_solve_time, failed_solves, optimize_history>>
reporterVars == <<base_intensity, metrics_history>>
brokerVars == <<webhook_url, redis, mqtt_published, escalated, webhook_posts>>
\* The collaborators of the kernel, and their clock
serviceVars == <<reporterVars, brokerVars, now>>

-----------------------------------------------------------------------------
(* Bounds of the model *)

MaxCalls == 3
\* Calls in the long runs that fill the block history past RecentBlocks
MaxLongCalls == 7
\* Constraint bounds range over -MaxVal/2 .. MaxVal/2 in steps of 1/2,
\* validated values over one step more on either side
MaxVal == 2
\* Longest forecast and tariff lists handed to the planner
MaxLen == 2
\* Longest horizon asked of the planner
MaxHorizon == 3

-----------------------------------------------------------------------------
(* Float arithmetic, as exact rationals *)

Abs(x) == IF x < 0 THEN -x ELSE x

RECURSIVE Gcd(_, _)
Gcd(a, b) == IF b = 0 THEN a ELSE Gcd(b, a % b)

Rat(n, d) ==
    LET g == Gcd(Abs(n), Abs(d))
        s == IF d < 0 THEN -1 ELSE 1
    IN [num |-> s * (n \div g), den |-> s * (d \div g)]

R(n) == [num |-> n, den |-> 1]

\* Common factors are cancelled before multiplying, which keeps the
\* intermediate products small; denominators are positive throughout.
Lt(a, b) ==
    LET g == Gcd(a.den, b.den)
    IN a.num * (b.den \div g) < b.num * (a.den \div g)
Le(a, b) ==
    LET g == Gcd(a.den, b.den)
    IN a.num * (b.den \div g) <= b.num * (a.den \div g)
Add(a, b) ==
    LET g == Gcd(a.den, b.den)
    IN Rat(a.num * (b.den \div g) + b.num * (a.den \div g), (a.den \div g) * b.den)
Sub(a, b) ==
    LET g == Gcd(a.den, b.den)
    IN Rat(a.num * (b.den \div g) - b.num * (a.den \div g), (a.den \div g) * b.den)
Mul(a, b) ==
    LET g1 == Gcd(Abs(a.num), b.den)
        g2 == Gcd(Abs(b.num), a.den)
    IN Rat((a.num \div g1) * (b.num \div g2), (a.den \div g2) * (b.den \div g1))
\* a / b for b # 0; the callers model ZeroDivisionError for b = 0
Div(a, b) == Mul(a, Rat(b.den, b.num))
Min2(a, b) == IF Le(a, b) THEN a ELSE b
Neg(a) == [num |-> -a.num, den |-> a.den]
\* max that answers its first argument
Max2_TakesFirst(a, b) == a

Max2(a, b) == IF Le(a, b) THEN b ELSE a
\* min of three that forgets its third argument, the clamp to the energy the
\* SOC bound leaves
Min3_DropThird(a, b, c) == Min2(a, b)

\* min of three that overlooks its second argument
Min3_DropSecond(a, b, c) == Min2(a, c)

Min3(a, b, c) == Min2(a, Min2(b, c))

\* s[lo] + ... + s[hi]; the sum is exact, so the order of the additions does
\* not matter, and halving the range keeps the evaluation shallow
RECURSIVE SumRange(_, _, _)
SumRange(s, lo, hi) ==
    IF lo > hi
    THEN R(0)
    ELSE IF lo = hi
    THEN s[lo]
    ELSE Add(SumRange(s, lo, (lo + hi) \div 2), SumRange(s, (lo + hi) \div 2 + 1, hi))

SumRat(s) == SumRange(s, 1, Len(s))

-----------------------------------------------------------------------------
(* guard_rail.py: ConstraintType, Constraint *)

VOLTAGE == "voltage"
CURRENT == "current"
POWER == "power"
SOC == "state_of_charge"
TEMPERATURE == "temperature"
FREQUENCY == "frequency"

ConstraintType == {VOLTAGE, CURRENT, POWER, SOC, TEMPERATURE, FREQUENCY}

Constraint(name, type, min_value, max_value, critical) ==
    [name |-> name, type |-> type, min_value |-> min_value,
     max_value |-> max_value, critical |-> critical]

\* f"{name} below minimum: {value} < {min}" / f"{name} exceeds maximum: ..."
Message(name, kind, value, bound) ==
    [constraint |-> name, kind |-> kind, value |-> value, bound |-> bound]

\* Python's None in the message slot of a valid result
NoMessage == Message("", "None", R(0), R(0))

\* validate with the lower bound made exclusive
validate_ExclusiveMin(self, value) ==
    IF Le(value, self.min_value)
    THEN [valid |-> FALSE,
          msg |-> Message(self.name, "below minimum", value, self.min_value)]
    ELSE IF Lt(self.max_value, value)
    THEN [valid |-> FALSE,
          msg |-> Message(self.name, "exceeds maximum", value, self.max_value)]
    ELSE [valid |-> TRUE, msg |-> NoMessage]

\* Constraint.validate: (is_valid, message)
validate(self, value) ==
    IF Lt(value, self.min_value)
    THEN [valid |-> FALSE,
          msg |-> Message(self.name, "below minimum", value, self.min_value)]
    ELSE IF Lt(self.max_value, value)
    THEN [valid |-> FALSE,
          msg |-> Message(self.name, "exceeds maximum", value, self.max_value)]
    ELSE [valid |-> TRUE, msg |-> NoMessage]

-----------------------------------------------------------------------------
(* guard_rail.py: GuardRail *)

\* add_constraint replacing a registered constraint of the same name in place
AddTo_ReplaceByName(registry, component, constraint) ==
    IF component \notin DOMAIN registry
    THEN (component :> <<constraint>>) @@ registry
    ELSE IF \E i \in 1..Len(registry[component]) :
                registry[component][i].name = constraint.name
    THEN [registry EXCEPT ![component] =
             [i \in 1..Len(@) |->
                 IF @[i].name = constraint.name THEN constraint ELSE @[i]]]
    ELSE [registry EXCEPT ![component] = Append(@, constraint)]

\* GuardRail.add_constraint on a registry value
AddTo(registry, component, constraint) ==
    IF component \notin DOMAIN registry
    THEN (component :> <<constraint>>) @@ registry
    ELSE [registry EXCEPT ![component] = Append(@, constraint)]

\* GuardRail._initialize_constraints: the five default constraints
DefaultConstraints ==
    LET r0 == <<>>
        r1 == AddTo(r0, "battery",
                    Constraint("Battery SOC", SOC, R(10), R(95), TRUE))
        r2 == AddTo(r1, "battery",
                    Constraint("Battery Current", CURRENT, R(-200), R(200), TRUE))
        r3 == AddTo(r2, "grid",
                    Constraint("Grid Voltage", VOLTAGE, R(380), R(420), TRUE))
        r4 == AddTo(r3, "grid",
                    Constraint("Grid Frequency", FREQUENCY, Rat(99, 2), Rat(101, 2), TRUE))
        r5 == AddTo(r4, "solar",
                    Constraint("PV Temperature", TEMPERATURE, R(-20), R(85), FALSE))
    IN r5

\* _map_parameter falling back to the enum's value for every type
map_parameter_EnumValue(constraint_type) == constraint_type

\* GuardRail._map_parameter
map_parameter(constraint_type) ==
    CASE constraint_type = VOLTAGE -> "voltage"
      [] constraint_type = CURRENT -> "current"
      [] constraint_type = POWER -> "power"
      [] constraint_type = SOC -> "soc"
      [] constraint_type = TEMPERATURE -> "temperature"
      [] constraint_type = FREQUENCY -> "frequency"
      [] OTHER -> constraint_type

\* The block record appended for a critical violation
BlockRecord(component, constraint, value, error_msg) ==
    [component |-> component, constraint |-> constraint.name,
     value |-> value, error |-> error_msg]

\* the loop body counting and recording every violation, critical or not
ValidateStep_CountAll(acc, component, parameters, constraint) ==
    LET param_key == map_parameter(constraint.type) IN
    IF param_key \notin DOMAIN parameters
    THEN acc
    ELSE LET r == validate(constraint, parameters[param_key]) IN
         IF r.valid
         THEN acc
         ELSE [acc EXCEPT
                 !.violations = Append(@, r.msg),
                 !.violation_count = @ + 1,
                 !.blocked_actions =
                     Append(@, BlockRecord(component, constraint,
                                           parameters[param_key], r.msg))]

\* The body of validate_action's loop for one constraint; acc carries the
\* local list `violations` and the two fields of self the loop writes.
ValidateStep(acc, component, parameters, constraint) ==
    LET param_key == map_parameter(constraint.type) IN
    IF param_key \notin DOMAIN parameters
    THEN acc
    ELSE LET r == validate(constraint, parameters[param_key]) IN
         IF r.valid
         THEN acc
         ELSE LET a1 == [acc EXCEPT !.violations = Append(@, r.msg)] IN
              IF constraint.critical
              THEN [a1 EXCEPT
                      !.violation_count = @ + 1,
                      !.blocked_actions =
                          Append(@, BlockRecord(component, constraint,
                                                parameters[param_key], r.msg))]
              ELSE a1

RECURSIVE ValidateLoop(_, _, _, _, _)
ValidateLoop(cs, i, acc, component, parameters) ==
    IF i > Len(cs)
    THEN acc
    ELSE ValidateLoop(cs, i + 1,
                      ValidateStep(acc, component, parameters, cs[i]),
                      component, parameters)

\* validate_action keeping only the block records of the call at hand
validate_action_DropsHistory(g, component, parameters) ==
    IF component \notin DOMAIN g.constraints
    THEN [g |-> g, is_valid |-> TRUE, violations |-> <<>>]
    ELSE LET acc == ValidateLoop(g.constraints[component], 1,
                                 [violations |-> <<>>,
                                  violation_count |-> g.violation_count,
                                  blocked_actions |-> <<>>],
                                 component, parameters)
         IN [g |-> [g EXCEPT !.violation_count = acc.violation_count,
                             !.blocked_actions = acc.blocked_actions],
             is_valid |-> Len(acc.violations) = 0,
             violations |-> acc.violations]

\* validate_action rejecting a component that has no constraints
validate_action_RejectUnknown(g, component, parameters) ==
    IF component \notin DOMAIN g.constraints
    THEN [g |-> g, is_valid |-> FALSE, violations |-> <<>>]
    ELSE LET acc == ValidateLoop(g.constraints[component], 1,
                                 [violations |-> <<>>,
                                  violation_count |-> g.violation_count,
                                  blocked_actions |-> g.blocked_actions],
                                 component, parameters)
         IN [g |-> [g EXCEPT !.violation_count = acc.violation_count,
                             !.blocked_actions = acc.blocked_actions],
             is_valid |-> Len(acc.violations) = 0,
             violations |-> acc.violations]

\* GuardRail.validate_action run on the state g = [constraints,
\* violation_count, blocked_actions]: the state after it and what it returns.
validate_action(g, component, parameters) ==
    IF component \notin DOMAIN g.constraints
    THEN [g |-> g, is_valid |-> TRUE, violations |-> <<>>]
    ELSE LET acc == ValidateLoop(g.constraints[component], 1,
                                 [violations |-> <<>>,
                                  violation_count |-> g.violation_count,
                                  blocked_actions |-> g.blocked_actions],
                                 component, parameters)
         IN [g |-> [g EXCEPT !.violation_count = acc.violation_count,
                             !.blocked_actions = acc.blocked_actions],
             is_valid |-> Len(acc.violations) = 0,
             violations |-> acc.violations]

\* state.get(key, default)
Get(state, key, default) == IF key \in DOMAIN state THEN state[key] ELSE default

\* the tally skipping absent parameters, as validate_action does
CriticalTally_SkipAbsent(registry, component, state) ==
    LET cs == IF component \in DOMAIN registry THEN registry[component] ELSE <<>>
    IN Cardinality({i \in 1..Len(cs) :
                      /\ cs[i].critical
                      /\ map_parameter(cs[i].type) \in DOMAIN state
                      /\ ~validate(cs[i], state[map_parameter(cs[i].type)]).valid})

\* check_system_health's tally of one invalid component:
\* sum(1 for c in self.constraints.get(component, [])
\*     if c.critical and not c.validate(state.get(key, 0))[0])
CriticalTally(registry, component, state) ==
    LET cs == IF component \in DOMAIN registry THEN registry[component] ELSE <<>>
    IN Cardinality({i \in 1..Len(cs) :
                      /\ cs[i].critical
                      /\ ~validate(cs[i],
                                   Get(state, map_parameter(cs[i].type), R(0))).valid})

EmptyReport ==
    [healthy |-> TRUE, components |-> <<>>, critical_violations |-> 0, warnings |-> 0]

\* the loop body with report['healthy'] = is_valid: the last component decides
HealthStep_LastDecides(acc, component, state) ==
    LET v == validate_action(acc.g, component, state)
        rep1 == [acc.report EXCEPT
                   !.healthy = v.is_valid,
                   !.components = (component :> [valid |-> v.is_valid,
                                                 violations |-> v.violations]) @@ @]
        critical == CriticalTally(v.g.constraints, component, state)
        rep2 == IF ~v.is_valid
                THEN [rep1 EXCEPT
                        !.critical_violations = @ + critical,
                        !.warnings = @ + (Len(v.violations) - critical)]
                ELSE rep1
    IN [g |-> v.g, report |-> rep2]

\* The body of check_system_health's loop for one (component, state) item;
\* acc = [g, report].
HealthStep(acc, component, state) ==
    LET v == validate_action(acc.g, component, state)
        rep1 == [acc.report EXCEPT
                   !.components = (component :> [valid |-> v.is_valid,
                                                 violations |-> v.violations]) @@ @]
        critical == CriticalTally(v.g.constraints, component, state)
        rep2 == IF ~v.is_valid
                THEN [rep1 EXCEPT
                        !.healthy = FALSE,
                        !.critical_violations = @ + critical,
                        !.warnings = @ + (Len(v.violations) - critical)]
                ELSE rep1
    IN [g |-> v.g, report |-> rep2]

RECURSIVE HealthLoop(_, _, _)
HealthLoop(items, i, acc) ==
    IF i > Len(items)
    THEN acc
    ELSE HealthLoop(items, i + 1,
                    HealthStep(acc, items[i].component, items[i].state))

\* A health check that reports and leaves the validator as it found it
check_system_health_ReadOnly(g, system_state) ==
    [g |-> g, report |-> HealthLoop(system_state, 1, [g |-> g, report |-> EmptyReport]).report]

\* GuardRail.check_system_health; system_state is the dict's items in order
check_system_health(g, system_state) ==
    HealthLoop(system_state, 1, [g |-> g, report |-> EmptyReport])

\* A total that counts the components, not their constraints
SumLen_Components(registry, keys) == Cardinality(keys)

\* sum(len(c) for c in self.constraints.values())
RECURSIVE SumLen(_, _)
SumLen(registry, keys) ==
    IF keys = {}
    THEN 0
    ELSE LET k == CHOOSE x \in keys : TRUE
         IN Len(registry[k]) + SumLen(registry, keys \ {k})

\* blocked_actions[:10] in place of blocked_actions[-10:]
LastN_FirstN(s, n) == IF Len(s) <= n THEN s ELSE SubSeq(s, 1, n)

\* blocked_actions[-10:]
RecentBlocks == 10
LastN(s, n) == IF Len(s) <= n THEN s ELSE SubSeq(s, Len(s) - n + 1, Len(s))

\* GuardRail.get_statistics
get_statistics(g) ==
    [total_constraints |-> SumLen(g.constraints, DOMAIN g.constraints),
     violation_count |-> g.violation_count,
     blocked_actions_count |-> Len(g.blocked_actions),
     components_monitored |-> Cardinality(DOMAIN g.constraints),
     recent_blocks |-> IF Len(g.blocked_actions) > 0
                       THEN LastN(g.blocked_actions, RecentBlocks)
                       ELSE <<>>]

-----------------------------------------------------------------------------
(* Inputs of the Guard Rail's callers *)

Components == {"battery", "grid", "solar", "inverter"}

\* Parameter dicts handed to validate_action
ParamChoices ==
    { [soc |-> R(45), current |-> R(50)],
      [soc |-> R(5), current |-> R(-150)],
      [soc |-> R(10), current |-> R(200)],
      [soc |-> R(96), current |-> R(-250)],
      [soc |-> R(5)],
      [soc |-> R(5), temperature |-> R(90)],
      [voltage |-> R(430), frequency |-> R(50)],
      [voltage |-> R(430)],
      [voltage |-> R(420), frequency |-> Rat(99, 2)],
      [frequency |-> R(51)],
      [temperature |-> R(45)],
      [temperature |-> R(90)],
      [power |-> R(150)],
      <<>> }

Item(component, state) == [component |-> component, state |-> state]

\* System states handed to check_system_health (dict items, in order)
HealthChoices ==
    { << Item("battery", [soc |-> R(75), current |-> R(30)]),
         Item("grid", [voltage |-> R(400), frequency |-> R(50)]),
         Item("solar", [temperature |-> R(45)]) >>,
      << Item("grid", [voltage |-> R(430), frequency |-> R(50)]) >>,
      << Item("grid", [voltage |-> R(430)]) >>,
      << Item("grid", <<>>) >>,
      << Item("grid", [voltage |-> R(430)]),
         Item("solar", [temperature |-> R(45)]) >>,
      << Item("solar", [temperature |-> R(90)]) >>,
      << Item("battery", [soc |-> R(5), current |-> R(-150)]),
         Item("solar", [temperature |-> R(90)]) >>,
      << Item("solar", [temperature |-> R(90)]),
         Item("battery", [soc |-> R(96), current |-> R(-250)]) >>,
      << Item("battery", [soc |-> R(5), temperature |-> R(90)]) >>,
      << Item("inverter", [power |-> R(150)]),
         Item("grid", [voltage |-> R(400), frequency |-> R(50)]) >>,
      << >> }

\* (component, constraint) pairs handed to add_constraint
AddChoices ==
    { Item("battery", Constraint("Battery SOC", SOC, R(20), R(80), TRUE)),
      Item("battery", Constraint("Battery SOC", SOC, R(0), R(100), TRUE)),
      Item("battery", Constraint("Battery Temp", TEMPERATURE, R(0), R(60), FALSE)),
      Item("inverter", Constraint("Inverter Power", POWER, R(0), R(100), FALSE)) }

\* Python's None
None == [none |-> TRUE]

-----------------------------------------------------------------------------
(* report_carbon.py: CarbonMetrics, CarbonReporter.  Times are in hours. *)

\* CarbonReporter.GRID_CARBON_INTENSITY.get(grid_type, 0.71)
GRID_CARBON_INTENSITY(grid_type) ==
    CASE grid_type = "coal" -> Rat(19, 20)
      [] grid_type = "natural_gas" -> Rat(9, 20)
      [] grid_type = "mixed_grid" -> Rat(71, 100)
      [] grid_type = "renewable" -> Rat(1, 20)
      [] OTHER -> Rat(71, 100)

CarbonMetrics(timestamp, emissions, renewable, saved, intensity, percentage) ==
    [timestamp |-> timestamp, grid_emissions |-> emissions,
     renewable_generation |-> renewable, carbon_saved |-> saved,
     carbon_intensity |-> intensity, renewable_percentage |-> percentage]

\* CarbonReporter.__init__
CarbonReporter(grid_type) ==
    [base_intensity |-> GRID_CARBON_INTENSITY(grid_type), metrics_history |-> <<>>]

\* calculate_emissions taking the renewable share of the grid consumption,
\* not of the total consumption
calculate_emissions_ShareOfGrid(r, grid_consumption, solar_generation, wind_generation, battery_discharge, time) ==
    LET renewable == Add(Add(solar_generation, wind_generation), battery_discharge)
        total == Add(grid_consumption, renewable)
        metrics == CarbonMetrics(time, Mul(total, r.base_intensity), renewable,
                                 Mul(renewable, r.base_intensity),
                                 IF Lt(R(0), total)
                                 THEN Div(Mul(grid_consumption, r.base_intensity), total)
                                 ELSE R(0),
                                 IF Lt(R(0), grid_consumption)
                                 THEN Mul(Div(renewable, grid_consumption), R(100))
                                 ELSE R(0))
    IN [r |-> [r EXCEPT !.metrics_history = Append(@, metrics)],
        metrics |-> metrics]

\* CarbonReporter.calculate_emissions on the reporter r at time `time`:
\* [r, metrics]
calculate_emissions(r, grid_consumption, solar_generation, wind_generation, battery_discharge, time) ==
    LET renewable_generation ==
            Add(Add(solar_generation, wind_generation), battery_discharge)
        total_consumption == Add(grid_consumption, renewable_generation)
        grid_emissions == Mul(total_consumption, r.base_intensity)
        actual_emissions == Mul(grid_consumption, r.base_intensity)
        carbon_saved == Sub(grid_emissions, actual_emissions)
        carbon_intensity == IF Lt(R(0), total_consumption)
                            THEN Div(actual_emissions, total_consumption)
                            ELSE R(0)
        renewable_percentage ==
            IF Lt(R(0), total_consumption)
            THEN Mul(Div(renewable_generation, total_consumption), R(100))
            ELSE R(0)
        metrics == CarbonMetrics(time, grid_emissions, renewable_generation,
                                 carbon_saved, carbon_intensity, renewable_percentage)
    IN [r |-> [r EXCEPT !.metrics_history = Append(@, metrics)],
        metrics |-> metrics]

RECURSIVE Pow10(_)
Pow10(n) == IF n = 0 THEN 1 ELSE 10 * Pow10(n - 1)

\* round(x, ndigits): to the nearest multiple of 10^-ndigits, a tie going to
\* the even one.  (On a float the tie is decided by the binary value that
\* stands for x; the model rounds the exact value.)
Round(x, ndigits) ==
    LET scaled == Mul(x, R(Pow10(ndigits)))
        floor == scaled.num \div scaled.den
        twice == 2 * (scaled.num - floor * scaled.den)
        nearest == IF twice < scaled.den THEN floor
                   ELSE IF twice > scaled.den THEN floor + 1
                   ELSE IF floor % 2 = 0 THEN floor ELSE floor + 1
    IN Rat(nearest, Pow10(ndigits))

RECURSIVE MaxRat(_)
MaxRat(s) == IF Len(s) = 1 THEN s[1] ELSE Max2(s[1], MaxRat(Tail(s)))

RECURSIVE MinRat(_)
MinRat(s) == IF Len(s) = 1 THEN s[1] ELSE Min2(s[1], MinRat(Tail(s)))

Field(s, f) == [i \in 1..Len(s) |-> s[i][f]]

\* The hours of timedelta(days=1)
DayHours == 24

\* The dict {}: a function of no key
EmptyDict == <<>>

\* CarbonReporter.generate_daily_report on the reporter r at time `time`
generate_daily_report(r, time) ==
    LET cutoff == time - DayHours
        recent_metrics == SelectSeq(r.metrics_history, LAMBDA m : m.timestamp >= cutoff)
        total_carbon_saved == SumRat(Field(recent_metrics, "carbon_saved"))
        avg_renewable_pct == Div(SumRat(Field(recent_metrics, "renewable_percentage")),
                                 R(Len(recent_metrics)))
        total_renewable_gen == SumRat(Field(recent_metrics, "renewable_generation"))
        trees_equivalent == Div(total_carbon_saved, R(21))
        cars_off_road == Div(total_carbon_saved, R(4600))
    IN IF r.metrics_history = <<>>
       THEN EmptyDict
       ELSE IF recent_metrics = <<>>
       THEN EmptyDict
       ELSE [date |-> time \div DayHours,
             total_carbon_saved_kg |-> Round(total_carbon_saved, 2),
             total_renewable_generation_kwh |-> Round(total_renewable_gen, 2),
             average_renewable_percentage |-> Round(avg_renewable_pct, 2),
             equivalents |->
                 [trees_planted |-> Round(Mul(trees_equivalent, R(365)), 2),
                  cars_off_road_days |-> Round(Mul(cars_off_road, R(365)), 2),
                  homes_powered |-> Round(Div(total_renewable_gen, R(30)), 2)],
             metrics |->
                 [peak_renewable_percentage |->
                      Round(MaxRat(Field(recent_metrics, "renewable_percentage")), 2),
                  minimum_carbon_intensity |->
                      Round(MinRat(Field(recent_metrics, "carbon_intensity")), 4),
                  total_data_points |-> Len(recent_metrics)]]

-----------------------------------------------------------------------------
(* alert_broker.py: AlertSeverity, AlertBroker.  The broker b is
   [webhook_url, redis, mqtt_published, escalated, webhook_posts]: what it
   was constructed with, the keys it has set in Redis, the messages it has
   published over MQTT, the alerts it has handed to _escalate_alert and the
   requests it has posted to the webhook. *)

LOW == "low"
MEDIUM == "medium"
HIGH == "high"
CRITICAL == "critical"
AlertSeverity == {LOW, MEDIUM, HIGH, CRITICAL}

\* The TTL of an alert in Redis: 3600 s
AlertTtlHours == 1

\* AlertBroker.__init__
AlertBroker(url) ==
    [webhook_url |-> url, redis |-> {}, mqtt_published |-> <<>>,
     escalated |-> <<>>, webhook_posts |-> <<>>]

\* json.dumps
json_dumps(x) == [json |-> x]

\* redis_client.setex(key, ttl, value): the key's earlier value is replaced
setex(store, key, expires, value) ==
    {entry \in store : entry.key # key}
        \cup {[key |-> key, expires |-> expires, value |-> value]}

\* AlertBroker._escalate_alert; post_ok tells whether requests.post returns
\* or raises.  Either way the method returns: the exception is caught.
escalate_alert(b, alert, post_ok) ==
    LET payload == [text |-> <<"CRITICAL ALERT", alert.message>>,
                    type |-> alert.type, time |-> alert.timestamp]
    IN [b EXCEPT !.escalated = Append(@, alert),
                 !.webhook_posts = IF b.webhook_url # ""
                                   THEN Append(@, [url |-> b.webhook_url,
                                                   json |-> payload,
                                                   delivered |-> post_ok])
                                   ELSE @]

\* create_alert escalating HIGH alerts as well as CRITICAL ones
create_alert_EscalatesHigh(b, alert_type, severity, message, metadata, time, env) ==
    LET alert == [id |-> <<"alert", time>>, type |-> alert_type,
                  severity |-> severity, message |-> message, timestamp |-> time,
                  metadata |-> IF metadata.is_none THEN {} ELSE metadata.value,
                  status |-> "active", acknowledged |-> FALSE]
        stored == [b EXCEPT !.redis = setex(@, <<"alert:", alert.id>>,
                                            time + AlertTtlHours, json_dumps(alert))]
        published == [stored EXCEPT !.mqtt_published =
                         Append(@, [topic |-> <<"cmorp/alerts", severity>>,
                                    payload |-> json_dumps(alert)])]
    IN IF ~env.redis_ok
       THEN [b |-> b, outcome |-> "raised", alert |-> None]
       ELSE IF ~env.mqtt_ok
       THEN [b |-> stored, outcome |-> "raised", alert |-> None]
       ELSE [b |-> IF severity \in {HIGH, CRITICAL}
                   THEN escalate_alert(published, alert, env.post_ok)
                   ELSE published,
             outcome |-> "returned",
             alert |-> alert]

\* AlertBroker.create_alert at time `time`; env tells which of the calls to
\* Redis, MQTT and the webhook succeed.  [b, outcome, alert], outcome "raised"
\* when an exception leaves the method.
create_alert(b, alert_type, severity, message, metadata, time, env) ==
    LET alert == [id |-> <<"alert", time>>,
                  type |-> alert_type,
                  severity |-> severity,
                  message |-> message,
                  timestamp |-> time,
                  metadata |-> IF metadata.is_none THEN {} ELSE metadata.value,
                  status |-> "active",
                  acknowledged |-> FALSE]
        stored == [b EXCEPT !.redis = setex(@, <<"alert:", alert.id>>,
                                            time + AlertTtlHours, json_dumps(alert))]
        published == [stored EXCEPT !.mqtt_published =
                         Append(@, [topic |-> <<"cmorp/alerts", severity>>,
                                    payload |-> json_dumps(alert)])]
    IN IF ~env.redis_ok
       THEN [b |-> b, outcome |-> "raised", alert |-> None]
       ELSE IF ~env.mqtt_ok
       THEN [b |-> stored, outcome |-> "raised", alert |-> None]
       ELSE [b |-> IF severity = CRITICAL
                   THEN escalate_alert(published, alert, env.post_ok)
                   ELSE published,
             outcome |-> "returned",
             alert |-> alert]

-----------------------------------------------------------------------------
(* The objects, and the Guard Rail as a state machine *)

\* self, as the record the operators above work on
Self ==
    [constraints |-> constraints, violation_count |-> violation_count,
     blocked_actions |-> blocked_actions]

\* GuardRail.__init__ (and a fresh SolverBridge beside it)
InitKernel ==
    /\ constraints = DefaultConstraints
    /\ violation_count = 0
    /\ blocked_actions = <<>>
    /\ solve_count = 0
    /\ total_solve_time = 0
    /\ failed_solves = 0
    /\ optimize_history = <<>>
    /\ ncalls = 0

\* The URL the benchmark gives the broker
WEBHOOK == "https://hooks.slack.com/services/YOUR_WEBHOOK"

\* The reporter and the broker as constructed, and the clock
InitServices(grid_type, url) ==
    /\ base_intensity = CarbonReporter(grid_type).base_intensity
    /\ metrics_history = CarbonReporter(grid_type).metrics_history
    /\ webhook_url = AlertBroker(url).webhook_url
    /\ redis = AlertBroker(url).redis
    /\ mqtt_published = AlertBroker(url).mqtt_published
    /\ escalated = AlertBroker(url).escalated
    /\ webhook_posts = AlertBroker(url).webhook_posts
    /\ now = 0

\* Every object as its constructor leaves it
InitObjects ==
    /\ InitKernel
    /\ InitServices("mixed_grid", WEBHOOK)

Init ==
    /\ InitObjects
    /\ pc = "idle"
    /\ call = [op |-> "__init__"]
    /\ ret = None

AddConstraintCall(choices, bound) ==
    /\ ncalls < bound
    /\ \E a \in choices :
         /\ constraints' = AddTo(constraints, a.component, a.state)
         /\ call' = [op |-> "add_constraint", component |-> a.component,
                     constraint |-> a.state]
    /\ ret' = None
    /\ pc' = "returned"
    /\ ncalls' = ncalls + 1
    /\ UNCHANGED <<violation_count, blocked_actions, solverVars, serviceVars>>

ValidateActionCall(comps, choices, bound) ==
    /\ ncalls < bound
    /\ \E component \in comps, parameters \in choices :
         LET r == validate_action(Self, component, parameters) IN
         /\ constraints' = r.g.constraints
         /\ violation_count' = r.g.violation_count
         /\ blocked_actions' = r.g.blocked_actions
         /\ call' = [op |-> "validate_action", component |-> component,
                     parameters |-> parameters]
         /\ ret' = [is_valid |-> r.is_valid, violations |-> r.violations]
    /\ pc' = "returned"
    /\ ncalls' = ncalls + 1
    /\ UNCHANGED <<solverVars, serviceVars>>

CheckSystemHealthCall(choices, bound) ==
    /\ ncalls < bound
    /\ \E system_state \in choices :
         LET r == check_system_health(Self, system_state) IN
         /\ constraints' = r.g.constraints
         /\ violation_count' = r.g.violation_count
         /\ blocked_actions' = r.g.blocked_actions
         /\ call' = [op |-> "check_system_health", system_state |-> system_state]
         /\ ret' = r.report
    /\ pc' = "returned"
    /\ ncalls' = ncalls + 1
    /\ UNCHANGED <<solverVars, serviceVars>>

GetStatisticsCall(bound) ==
    /\ ncalls < bound
    /\ call' = [op |-> "get_statistics"]
    /\ ret' = get_statistics(Self)
    /\ pc' = "returned"
    /\ ncalls' = ncalls + 1
    /\ UNCHANGED <<guardVars, solverVars, serviceVars>>

AddConstraint == AddConstraintCall(AddChoices, MaxCalls)
ValidateAction == ValidateActionCall(Components, ParamChoices, MaxCalls)
CheckSystemHealth == CheckSystemHealthCall(HealthChoices, MaxCalls)
GetStatistics == GetStatisticsCall(MaxCalls)

NextGuard ==
    \/ AddConstraint
    \/ ValidateAction
    \/ CheckSystemHealth
    \/ GetStatistics

SpecGuard == Init /\ [][NextGuard]_vars

\* Long runs of the same operations on few inputs, so that the block history
\* grows past the ten records get_statistics reports
LongParams == { [soc |-> R(96), current |-> R(-250)] }
LongHealth == { << Item("grid", [voltage |-> R(430)]) >> }
LongAdds ==
    { Item("battery", Constraint("Battery SOC", SOC, R(20), R(80), TRUE)),
      Item("inverter", Constraint("Inverter Power", POWER, R(0), R(100), FALSE)) }

LongAddConstraint == AddConstraintCall(LongAdds, MaxLongCalls)
LongValidateAction == ValidateActionCall({"battery"}, LongParams, MaxLongCalls)
LongCheckSystemHealth == CheckSystemHealthCall(LongHealth, MaxLongCalls)
LongGetStatistics == GetStatisticsCall(MaxLongCalls)

NextLong ==
    \/ LongAddConstraint
    \/ LongValidateAction
    \/ LongCheckSystemHealth
    \/ LongGetStatistics

SpecLong == Init /\ [][NextLong]_vars

-----------------------------------------------------------------------------
(* Constraint.validate on its own: the inputs are drawn by Init *)

BoundSpace == {Rat(n, 2) : n \in -MaxVal..MaxVal}
ValueSpace == {Rat(n, 2) : n \in -(MaxVal + 1)..(MaxVal + 1)}

\* Constraints as the data model has them: min_value <= max_value
ConstraintSpace ==
    {c \in {Constraint("K", SOC, lo, hi, crit) :
                crit \in BOOLEAN, lo \in BoundSpace, hi \in BoundSpace} :
        Le(c.min_value, c.max_value)}

InitValidate ==
    /\ InitObjects
    /\ pc = "called"
    /\ call \in {[op |-> "validate", constraint |-> c, value |-> v] :
                    c \in ConstraintSpace, v \in ValueSpace}
    /\ ret = None

ConstraintValidate ==
    /\ pc = "called"
    /\ call.op = "validate"
    /\ ret' = validate(call.constraint, call.value)
    /\ pc' = "returned"
    /\ UNCHANGED <<guardVars, solverVars, serviceVars, call, ncalls>>

SpecValidate == InitValidate /\ [][ConstraintValidate]_vars

-----------------------------------------------------------------------------
(* solver_bridge.py: SolverBridge *)

SIMPLE == "simple_heuristic"

\* OptimizationResult
OptimizationResult(success, objective, battery, grid, time_ms, solver, iters, savings) ==
    [success |-> success, objective_value |-> objective,
     battery_schedule |-> battery, grid_schedule |-> grid,
     solve_time_ms |-> time_ms, solver_used |-> solver,
     iterations |-> iters, cost_savings_pct |-> savings]

\* A default tariff with one price round the clock
generate_default_tariff_Flat(hours) == [i \in 1..hours |-> Rat(13, 2)]

\* A default tariff priced by the hour of the horizon, not by the hour of the day
generate_default_tariff_NoWrap(hours) ==
    [i \in 1..hours |->
        IF (6 <= i - 1 /\ i - 1 < 9) \/ (18 <= i - 1 /\ i - 1 < 22)
        THEN Rat(17, 2)
        ELSE IF 9 <= i - 1 /\ i - 1 < 18
        THEN Rat(13, 2)
        ELSE Rat(9, 2)]

\* SolverBridge._generate_default_tariff
generate_default_tariff(hours) ==
    [i \in 1..hours |->
        LET hour_of_day == (i - 1) % 24 IN
        IF (6 <= hour_of_day /\ hour_of_day < 9) \/ (18 <= hour_of_day /\ hour_of_day < 22)
        THEN Rat(17, 2)
        ELSE IF 9 <= hour_of_day /\ hour_of_day < 18
        THEN Rat(13, 2)
        ELSE Rat(9, 2)]

\* _pad_forecast returning a forecast longer than the target as it is
pad_forecast_NoTruncate(forecast, target_length) ==
    IF Len(forecast) >= target_length
    THEN forecast
    ELSE forecast \o [i \in 1..(target_length - Len(forecast)) |-> forecast[Len(forecast)]]

\* _pad_forecast padding with the first value of the forecast
pad_forecast_RepeatFirst(forecast, target_length) ==
    IF Len(forecast) >= target_length
    THEN SubSeq(forecast, 1, target_length)
    ELSE forecast \o [i \in 1..(target_length - Len(forecast)) |-> forecast[1]]

\* SolverBridge._pad_forecast, where it returns
pad_forecast(forecast, target_length) ==
    IF Len(forecast) >= target_length
    THEN SubSeq(forecast, 1, target_length)
    ELSE forecast \o [i \in 1..(target_length - Len(forecast)) |-> forecast[Len(forecast)]]

\* SolverBridge._pad_forecast raises IndexError: forecast[-1] of an empty list
pad_forecast_raises(forecast, target_length) ==
    Len(forecast) < target_length /\ Len(forecast) = 0

\* A battery that returns half of what it takes
efficiency_Half == Rat(1, 2)

\* A battery that loses nothing
efficiency_Lossless == R(1)

\* efficiency = 0.95, the local of _solve_simple_heuristic
efficiency == Rat(19, 20)

\* The body of the heuristic's loop for one hour (0-based, as in the code);
\* acc carries the locals the loop writes, and `raised` once an exception
\* (IndexError on tariff[hour], ZeroDivisionError on / battery_capacity)
\* has left the loop.
HeuristicStep(acc, hour, solar, load, battery_capacity, tariff) ==
    IF acc.raised
    THEN acc
    ELSE IF hour + 1 > Len(tariff)
    THEN [acc EXCEPT !.raised = TRUE]
    ELSE
    LET max_charge_rate == Mul(battery_capacity, Rat(1, 2))
        max_discharge_rate == Mul(battery_capacity, Rat(1, 2))
        net_power == Sub(solar[hour + 1], load[hour + 1])
        a0 == [acc EXCEPT !.baseline_cost =
                  Add(@, Mul(Max2(R(0), Neg(net_power)), tariff[hour + 1]))]
    IN
    IF Lt(R(0), net_power)
    THEN IF Lt(a0.soc, R(90))
         THEN LET charge_amount ==
                      Min3(net_power, max_charge_rate,
                           Mul(Div(Sub(R(90), a0.soc), R(100)), battery_capacity))
              IN IF battery_capacity.num = 0
                 THEN [a0 EXCEPT !.raised = TRUE]
                 ELSE [a0 EXCEPT
                         !.battery_schedule = Append(@, charge_amount),
                         !.grid_schedule = Append(@, Sub(net_power, charge_amount)),
                         !.soc = Add(@, Mul(Mul(Div(charge_amount, battery_capacity),
                                                R(100)), efficiency))]
         ELSE [a0 EXCEPT
                 !.battery_schedule = Append(@, R(0)),
                 !.grid_schedule = Append(@, net_power)]
    ELSE LET deficit == Neg(net_power)
             avg_tariff == Div(SumRat(tariff), R(Len(tariff)))
         IN IF Lt(Mul(avg_tariff, Rat(6, 5)), tariff[hour + 1]) /\ Lt(R(20), a0.soc)
            THEN LET discharge_amount ==
                         Min3(deficit, max_discharge_rate,
                              Mul(Div(Sub(a0.soc, R(20)), R(100)), battery_capacity))
                 IN IF battery_capacity.num = 0
                    THEN [a0 EXCEPT !.raised = TRUE]
                    ELSE [a0 EXCEPT
                            !.battery_schedule = Append(@, Neg(discharge_amount)),
                            !.grid_schedule = Append(@, Sub(deficit, discharge_amount)),
                            !.soc = Sub(@, Div(Mul(Div(discharge_amount, battery_capacity),
                                                   R(100)), efficiency)),
                            !.total_cost = Add(@, Mul(Sub(deficit, discharge_amount),
                                                      tariff[hour + 1]))]
            ELSE [a0 EXCEPT
                    !.battery_schedule = Append(@, R(0)),
                    !.grid_schedule = Append(@, deficit),
                    !.total_cost = Add(@, Mul(deficit, tariff[hour + 1]))]

RECURSIVE HeuristicLoop(_, _, _, _, _, _, _)
HeuristicLoop(acc, hour, solar, load, battery_capacity, tariff, horizon) ==
    IF hour >= horizon
    THEN acc
    ELSE \* the locals are computed hour by hour, each before the next begins
         CHOOSE final \in
             {HeuristicLoop(next, hour + 1, solar, load, battery_capacity, tariff, horizon) :
                  next \in {HeuristicStep(acc, hour, solar, load, battery_capacity, tariff)}} :
             TRUE

\* heuristic_result reporting the saving as a fraction, not a percentage
heuristic_result_Fraction(acc, horizon) ==
    [raised |-> acc.raised,
     result |-> IF acc.raised
                THEN None
                ELSE OptimizationResult(TRUE, acc.total_cost, acc.battery_schedule,
                                        acc.grid_schedule, 0, SIMPLE, horizon,
                                        IF Lt(R(0), acc.baseline_cost)
                                        THEN Div(Sub(acc.baseline_cost, acc.total_cost),
                                                 acc.baseline_cost)
                                        ELSE R(0))]

\* What _solve_simple_heuristic returns once its loop has left the locals acc
heuristic_result(acc, horizon) ==
    LET cost_savings_pct ==
            IF Lt(R(0), acc.baseline_cost)
            THEN Mul(Div(Sub(acc.baseline_cost, acc.total_cost), acc.baseline_cost), R(100))
            ELSE R(0)
    IN IF acc.raised
       THEN [raised |-> TRUE, result |-> None]
       ELSE [raised |-> FALSE,
             result |-> OptimizationResult(TRUE, acc.total_cost, acc.battery_schedule,
                                           acc.grid_schedule, 0, SIMPLE, horizon,
                                           cost_savings_pct)]

\* SolverBridge._solve_simple_heuristic: [raised, result]
solve_simple_heuristic(solar, load, battery_capacity, initial_soc, tariff, horizon) ==
    heuristic_result(HeuristicLoop([battery_schedule |-> <<>>, grid_schedule |-> <<>>,
                                    soc |-> initial_soc, total_cost |-> R(0),
                                    baseline_cost |-> R(0), raised |-> FALSE],
                                   0, solar, load, battery_capacity, tariff, horizon),
                     horizon)

\* What optimize_energy_schedule does with the outcome h of the heuristic:
\* the try block's return, or the except block's fallback
optimize_outcome(b, h, load_forecast, horizon_hours, elapsed) ==
    IF ~h.raised
    THEN [b |-> [b EXCEPT !.solve_count = @ + 1,
                          !.total_solve_time = @ + elapsed],
          outcome |-> "returned",
          result |-> [h.result EXCEPT !.solve_time_ms = elapsed,
                                      !.solver_used = SIMPLE]]
    ELSE [b |-> [b EXCEPT !.failed_solves = @ + 1],
          outcome |-> "returned",
          result |-> OptimizationResult(FALSE, R(0),
                                        [i \in 1..horizon_hours |-> R(0)],
                                        load_forecast, elapsed, SIMPLE, 0, R(0))]

\* optimize_energy_schedule on a bridge that remembers the battery as drained
\* to the floor once it has solved a schedule, whatever initial_soc says
optimize_energy_schedule_KeepsSoc(b, a, elapsed) ==
    IF \/ pad_forecast_raises(a.solar_forecast, a.horizon_hours)
       \/ pad_forecast_raises(a.load_forecast, a.horizon_hours)
    THEN [b |-> b, outcome |-> "raised", result |-> None]
    ELSE optimize_outcome(b,
             solve_simple_heuristic(pad_forecast(a.solar_forecast, a.horizon_hours),
                                    pad_forecast(a.load_forecast, a.horizon_hours),
                                    a.battery_capacity,
                                    IF b.solve_count > 0 THEN R(20) ELSE a.initial_soc,
                                    IF a.grid_tariff.is_none
                                    THEN generate_default_tariff(a.horizon_hours)
                                    ELSE a.grid_tariff.value,
                                    a.horizon_hours),
             pad_forecast(a.load_forecast, a.horizon_hours), a.horizon_hours, elapsed)

\* SolverBridge.optimize_energy_schedule run on the bridge b = [solve_count,
\* total_solve_time, failed_solves] with the arguments a; elapsed is the
\* wall-clock time the call measures, in ms.  outcome is "raised" when an
\* exception leaves the method.
optimize_energy_schedule(b, a, elapsed) ==
    LET horizon_hours == a.horizon_hours
        grid_tariff == IF a.grid_tariff.is_none
                       THEN generate_default_tariff(horizon_hours)
                       ELSE a.grid_tariff.value
    IN
    IF \/ pad_forecast_raises(a.solar_forecast, horizon_hours)
       \/ pad_forecast_raises(a.load_forecast, horizon_hours)
    THEN [b |-> b, outcome |-> "raised", result |-> None]
    ELSE
    LET solar_forecast == pad_forecast(a.solar_forecast, horizon_hours)
        load_forecast == pad_forecast(a.load_forecast, horizon_hours)
    IN optimize_outcome(b, solve_simple_heuristic(solar_forecast, load_forecast,
                                                  a.battery_capacity, a.initial_soc,
                                                  grid_tariff, horizon_hours),
                        load_forecast, horizon_hours, elapsed)

-----------------------------------------------------------------------------
(* optimize_energy_schedule on its own: the arguments are drawn by Init *)

Powers == {R(0), R(60)}
\* a cheap and a dear price, and a negative one
Prices == {R(-2), R(2), R(10)}
\* the prices that are not negative
PositivePrices == {R(2), R(10)}
Capacities == {R(0), R(100)}
InitialSocs == {R(15), R(50), R(92)}
\* the wall-clock times a call may measure, in ms
SolveTimes == {1, 2}

SeqsUpTo(S, n) == UNION {[1..k -> S] : k \in 0..n}

\* The optional argument grid_tariff: None, or a list
NoTariff == [is_none |-> TRUE, value |-> <<>>]
Tariff(t) == [is_none |-> FALSE, value |-> t]

OptimizeArgs ==
    [op : {"optimize_energy_schedule"},
     solar_forecast : SeqsUpTo(Powers, MaxLen),
     load_forecast : SeqsUpTo(Powers, MaxLen),
     battery_capacity : Capacities,
     initial_soc : InitialSocs,
     grid_tariff : {NoTariff} \cup {Tariff(t) : t \in SeqsUpTo(Prices, MaxLen)},
     horizon_hours : 0..MaxHorizon]

Bridge ==
    [solve_count |-> solve_count, total_solve_time |-> total_solve_time,
     failed_solves |-> failed_solves]

\* The entry of optimize_history for a call with arguments a that ended as r
Solve(a, r) == [args |-> a, outcome |-> r.outcome, result |-> r.result]

InitOptimize ==
    /\ InitObjects
    /\ pc = "called"
    /\ call \in OptimizeArgs
    /\ ret = None

OptimizeEnergySchedule ==
    /\ pc = "called"
    /\ call.op = "optimize_energy_schedule"
    /\ \E elapsed \in SolveTimes :
         \E r \in {optimize_energy_schedule(Bridge, call, elapsed)} :
         /\ solve_count' = r.b.solve_count
         /\ total_solve_time' = r.b.total_solve_time
         /\ failed_solves' = r.b.failed_solves
         /\ optimize_history' = Append(optimize_history, Solve(call, r))
         /\ pc' = r.outcome
         /\ ret' = r.result
    /\ ncalls' = ncalls + 1
    /\ UNCHANGED <<guardVars, serviceVars, call>>

SpecOptimize == InitOptimize /\ [][OptimizeEnergySchedule]_vars

-----------------------------------------------------------------------------
(* Vocabulary of the claims about the Guard Rail *)

\* The parameter key of each constraint type
ClaimKey ==
    [voltage |-> "voltage", current |-> "current", power |-> "power",
     state_of_charge |-> "soc", temperature |-> "temperature",
     frequency |-> "frequency"]

\* c's key is present in p and its value lies outside [min, max]
Outside(c, p) ==
    /\ ClaimKey[c.type] \in DOMAIN p
    /\ \/ Lt(p[ClaimKey[c.type]], c.min_value)
       \/ Lt(c.max_value, p[ClaimKey[c.type]])

Registered(registry, component) ==
    IF component \in DOMAIN registry THEN registry[component] ELSE <<>>

\* Indices of the violated constraints of cs, in registration order
ViolatedIdx(cs, p) ==
    SelectSeq([i \in 1..Len(cs) |-> i], LAMBDA i : Outside(cs[i], p))

CriticalIdx(cs, p) ==
    SelectSeq(ViolatedIdx(cs, p), LAMBDA i : cs[i].critical)

\* The message a violated constraint c yields for p
ExpectedMessage(c, p) ==
    LET v == p[ClaimKey[c.type]] IN
    IF Lt(v, c.min_value)
    THEN [constraint |-> c.name, kind |-> "below minimum",
          value |-> v, bound |-> c.min_value]
    ELSE [constraint |-> c.name, kind |-> "exceeds maximum",
          value |-> v, bound |-> c.max_value]

ExpectedBlock(component, c, p) ==
    [component |-> component, constraint |-> c.name,
     value |-> p[ClaimKey[c.type]], error |-> ExpectedMessage(c, p)]

\* The step is a call of op
CallStep(op) == ncalls' = ncalls + 1 /\ call'.op = op

Returned(op) == pc = "returned" /\ call.op = op

-----------------------------------------------------------------------------
(* C1 *)

\* C1: Constraint.validate(value) is valid iff min_value <= value <= max_value;
\* value = min_value and value = max_value are valid; an invalid result
\* carries 'below minimum' exactly when value < min_value and 'exceeds
\* maximum' exactly when value > max_value.
C1_ValidateIffInRange ==
    Returned("validate") =>
        LET c == call.constraint
            v == call.value
        IN /\ ret.valid <=> (Le(c.min_value, v) /\ Le(v, c.max_value))
           /\ (v = c.min_value \/ v = c.max_value) => ret.valid
           /\ (~ret.valid /\ ret.msg.kind = "below minimum") <=> Lt(v, c.min_value)
           /\ (~ret.valid /\ ret.msg.kind = "exceeds maximum") <=> Lt(c.max_value, v)
           /\ ret.valid => ret.msg = NoMessage

C1_Witness ==
    /\ Returned("validate")
    /\ call.value = call.constraint.min_value
    /\ Lt(call.constraint.min_value, call.constraint.max_value)
    /\ ret.valid

-----------------------------------------------------------------------------
(* C2 *)

\* C2: validate_action(component, parameters) is valid iff no constraint
\* registered under the component whose mapped key is present has its value
\* outside [min, max]; the returned list holds one message per violated
\* constraint, in registration order; when every constraint's key is absent
\* nothing is reported and the counter and history do not change.
C2_ValidateAction ==
    [][CallStep("validate_action") =>
        LET cs == Registered(constraints, call'.component)
            p == call'.parameters
            idx == ViolatedIdx(cs, p)
        IN /\ pc' = "returned"
           /\ ret'.is_valid <=> (\A i \in 1..Len(cs) : ~Outside(cs[i], p))
           /\ ret'.violations = [j \in 1..Len(idx) |-> ExpectedMessage(cs[idx[j]], p)]
           /\ (\A i \in 1..Len(cs) : ClaimKey[cs[i].type] \notin DOMAIN p)
                 => /\ ret'.violations = <<>>
                    /\ violation_count' = violation_count
                    /\ blocked_actions' = blocked_actions
    ]_vars

\* two constraints violated, in registration order, and a third one skipped
C2_Witness ==
    /\ Returned("validate_action")
    /\ Len(Registered(constraints, call.component)) >= 3
    /\ Len(ret.violations) = 2
    /\ \E i \in 1..Len(constraints[call.component]) :
          ClaimKey[constraints[call.component][i].type] \notin DOMAIN call.parameters

-----------------------------------------------------------------------------
(* C3 *)

\* C3: a validate_action call raises the violation counter by exactly the
\* number of critical constraints violated by parameters present in the call
\* and appends exactly those block records {component, constraint, value,
\* error}; battery {soc: 5, current: -150} on the default set adds exactly 1;
\* a valid call returns an empty list and changes neither; a violated
\* non-critical constraint changes neither.
C3_CriticalCounter ==
    [][CallStep("validate_action") =>
        LET cs == Registered(constraints, call'.component)
            p == call'.parameters
            crit == CriticalIdx(cs, p)
        IN /\ violation_count' = violation_count + Len(crit)
           /\ blocked_actions' = blocked_actions \o
                 [j \in 1..Len(crit) |-> ExpectedBlock(call'.component, cs[crit[j]], p)]
           /\ ( /\ constraints = DefaultConstraints
                /\ call'.component = "battery"
                /\ p = [soc |-> R(5), current |-> R(-150)] )
                 => violation_count' = violation_count + 1
           /\ ret'.is_valid
                 => /\ ret'.violations = <<>>
                    /\ violation_count' = violation_count
                    /\ blocked_actions' = blocked_actions
    ]_vars

\* a call that violated one critical and one non-critical constraint
C3_Witness ==
    /\ Returned("validate_action")
    /\ Len(ret.violations) = 2
    /\ Len(CriticalIdx(constraints[call.component], call.parameters)) = 1
    /\ violation_count >= 2

-----------------------------------------------------------------------------
(* C4 *)

\* C4: for a component with no registered constraints validate_action
\* returns (true, empty list) whatever the parameters, raises nothing, and
\* leaves the registry, the counter and the history unchanged.
C4_UnregisteredComponent ==
    [][(CallStep("validate_action") /\ call'.component \notin DOMAIN constraints) =>
        /\ pc' = "returned"
        /\ ret' = [is_valid |-> TRUE, violations |-> <<>>]
        /\ constraints' = constraints
        /\ violation_count' = violation_count
        /\ blocked_actions' = blocked_actions
    ]_vars

C4_Witness ==
    /\ Returned("validate_action")
    /\ call.component \notin DOMAIN constraints
    /\ call.parameters = [soc |-> R(5), current |-> R(-150)]
    /\ violation_count > 0

-----------------------------------------------------------------------------
(* C5 *)

\* Number of constraints in a registry
TotalConstraints(registry) ==
    Cardinality(UNION {{<<c, i>> : i \in 1..Len(registry[c])} : c \in DOMAIN registry})

SameName(cs, name) == {i \in 1..Len(cs) : cs[i].name = name}

\* C5 as stated: add_constraint replaces by name: when a constraint of the
\* same name is already registered under the component, the call leaves
\* exactly one constraint of that name there, the new one, and the number of
\* constraints does not grow.
C5_ReplacesByName ==
    [][CallStep("add_constraint") =>
        LET c == call'.component
            k == call'.constraint
        IN SameName(Registered(constraints, c), k.name) # {}
              => /\ TotalConstraints(constraints') = TotalConstraints(constraints)
                 /\ Cardinality(SameName(constraints'[c], k.name)) = 1
                 /\ \A i \in SameName(constraints'[c], k.name) : constraints'[c][i] = k
    ]_vars

\* C5 amended: add_constraint appends and never replaces: every call adds
\* the constraint at the end of the component's list and raises the number
\* of constraints by one, so constraints of one name accumulate; and
\* validate_action judges a value against every one of them, rejecting it
\* when it is outside any registered range, an earlier one included.
C5_AppendsNeverReplaces ==
    [][ /\ CallStep("add_constraint") =>
            LET c == call'.component
                k == call'.constraint
            IN /\ DOMAIN constraints' = DOMAIN constraints \cup {c}
               /\ constraints'[c] = Registered(constraints, c) \o <<k>>
               /\ \A d \in DOMAIN constraints \ {c} : constraints'[d] = constraints[d]
               /\ TotalConstraints(constraints') = TotalConstraints(constraints) + 1
               /\ Cardinality(SameName(constraints'[c], k.name))
                     = Cardinality(SameName(Registered(constraints, c), k.name)) + 1
        /\ CallStep("validate_action") =>
            LET cs == Registered(constraints, call'.component)
                p == call'.parameters
            IN \A i \in 1..Len(cs) :
                  Outside(cs[i], p)
                     => /\ ~ret'.is_valid
                        /\ \E j \in 1..Len(ret'.violations) :
                              ret'.violations[j] = ExpectedMessage(cs[i], p)
    ]_vars

\* "Battery SOC" registered twice, [10, 95] and then [0, 100]; soc = 5 is
\* inside the later range and still rejected by the earlier one
C5_Witness ==
    /\ Returned("validate_action")
    /\ call.component = "battery"
    /\ call.parameters = [soc |-> R(5)]
    /\ Cardinality(SameName(constraints["battery"], "Battery SOC")) = 2
    /\ constraints["battery"][Len(constraints["battery"])]
          = Constraint("Battery SOC", SOC, R(0), R(100), TRUE)
    /\ ~ret.is_valid

-----------------------------------------------------------------------------
(* C6 *)

IsPrefix(s, t) == Len(s) <= Len(t) /\ SubSeq(t, 1, Len(s)) = s

\* C6 as stated: the number of retained block records never exceeds a fixed
\* N (the N = 10 of get_statistics, the only such number in the code).
C6_HistoryBounded == Len(blocked_actions) <= RecentBlocks

\* C6 amended: the block history itself is unbounded and append-only (no
\* call removes or alters a record); what is bounded is the recent_blocks
\* list of get_statistics, which never holds more than 10 records, and they
\* are the 10 most recent ones (all of them when there are at most 10).
C6_RecentBlocksBounded ==
    [][ /\ IsPrefix(blocked_actions, blocked_actions')
        /\ CallStep("get_statistics") =>
            LET rb == ret'.recent_blocks
                n == Len(blocked_actions)
            IN /\ blocked_actions' = blocked_actions
               /\ Len(rb) = IF n <= RecentBlocks THEN n ELSE RecentBlocks
               /\ \A j \in 1..Len(rb) : rb[j] = blocked_actions[n - Len(rb) + j]
    ]_vars

\* get_statistics called on a history of more than ten records
C6_Witness ==
    /\ Returned("get_statistics")
    /\ Len(blocked_actions) > RecentBlocks
    /\ Len(ret.recent_blocks) = RecentBlocks
    /\ ret.recent_blocks # SubSeq(blocked_actions, 1, RecentBlocks)

-----------------------------------------------------------------------------
(* C7 *)

ItemValid(registry, item) ==
    \A i \in 1..Len(Registered(registry, item.component)) :
        ~Outside(Registered(registry, item.component)[i], item.state)

ItemMessages(registry, item) ==
    LET cs == Registered(registry, item.component)
        idx == ViolatedIdx(cs, item.state)
    IN [j \in 1..Len(idx) |-> ExpectedMessage(cs[idx[j]], item.state)]

\* C7: check_system_health reports healthy iff validate_action is valid for
\* every component of system_state; each component's 'valid' flag and
\* 'violations' list are those validate_action returns for it; and
\* {grid: {voltage: 430, frequency: 50}} gives healthy = false with
\* critical_violations >= 1.
C7_HealthyIffAllValid ==
    Returned("check_system_health") =>
        LET items == call.system_state IN
        /\ ret.healthy <=> (\A k \in 1..Len(items) : ItemValid(constraints, items[k]))
        /\ DOMAIN ret.components = {items[k].component : k \in 1..Len(items)}
        /\ \A k \in 1..Len(items) :
              /\ ret.components[items[k].component].valid
                    <=> ItemValid(constraints, items[k])
              /\ ret.components[items[k].component].violations
                    = ItemMessages(constraints, items[k])
        /\ items = << Item("grid", [voltage |-> R(430), frequency |-> R(50)]) >>
              => ~ret.healthy /\ ret.critical_violations >= 1

\* an invalid component followed by a valid one
C7_Witness ==
    /\ Returned("check_system_health")
    /\ Len(call.system_state) = 2
    /\ ~ret.components[call.system_state[1].component].valid
    /\ ret.components[call.system_state[2].component].valid
    /\ ~ret.healthy

-----------------------------------------------------------------------------
(* C8, C9 *)

\* c is violated by p with an absent parameter taken to be 0
OutsideDefault0(c, p) ==
    LET v == IF ClaimKey[c.type] \in DOMAIN p THEN p[ClaimKey[c.type]] ELSE R(0)
    IN Lt(v, c.min_value) \/ Lt(c.max_value, v)

CriticalDefault0(registry, item) ==
    LET cs == Registered(registry, item.component)
    IN Cardinality({i \in 1..Len(cs) : cs[i].critical /\ OutsideDefault0(cs[i], item.state)})

NonCriticalViolated(registry, item) ==
    LET cs == Registered(registry, item.component)
    IN Cardinality({i \in 1..Len(cs) : ~cs[i].critical /\ Outside(cs[i], item.state)})

RECURSIVE SumSeq(_)
SumSeq(s) == IF s = <<>> THEN 0 ELSE Head(s) + SumSeq(Tail(s))

\* C8 as stated: critical_violations is the sum, over all the components of
\* the input, of the component's critical constraints violated with absent
\* parameters taken to be 0.
C8_CriticalOverAllComponents ==
    Returned("check_system_health") =>
        ret.critical_violations
           = SumSeq([k \in 1..Len(call.system_state) |->
                        CriticalDefault0(constraints, call.system_state[k])])

\* C8 amended: the sum runs over the components of the input that
\* validate_action reports invalid only; a component validate_action
\* accepts adds nothing, whatever its absent parameters would give at 0.
C8_CriticalOverInvalidComponents ==
    Returned("check_system_health") =>
        ret.critical_violations
           = SumSeq([k \in 1..Len(call.system_state) |->
                        IF ItemValid(constraints, call.system_state[k])
                        THEN 0
                        ELSE CriticalDefault0(constraints, call.system_state[k])])

\* grid {voltage: 430}: the absent frequency, taken as 0, is counted too
C8_Witness ==
    /\ Returned("check_system_health")
    /\ call.system_state = << Item("grid", [voltage |-> R(430)]) >>
    /\ ret.critical_violations = 2
    /\ Len(ret.components["grid"].violations) = 1

\* C9: 'warnings' is the number of violated non-critical constraints across
\* the components of the input, hence never negative, also when parameters
\* are absent.
C9_WarningsCountNonCritical ==
    Returned("check_system_health") =>
        /\ ret.warnings >= 0
        /\ ret.warnings
              = SumSeq([k \in 1..Len(call.system_state) |->
                           NonCriticalViolated(constraints, call.system_state[k])])

-----------------------------------------------------------------------------
(* C10 *)

\* C10: whatever the horizon h, the forecasts and the tariff, a result
\* returned by optimize_energy_schedule has battery_schedule and
\* grid_schedule of length exactly h, from the heuristic (success = true)
\* and from the fallback (success = false) alike.
C10_ScheduleLengths ==
    Returned("optimize_energy_schedule") =>
        /\ Len(ret.battery_schedule) = call.horizon_hours
        /\ Len(ret.grid_schedule) = call.horizon_hours

\* the fallback on a load forecast longer than the horizon
C10_Witness ==
    /\ Returned("optimize_energy_schedule")
    /\ ~ret.success
    /\ call.horizon_hours > 0
    /\ Len(call.load_forecast) > call.horizon_hours
    /\ Len(ret.grid_schedule) = call.horizon_hours

-----------------------------------------------------------------------------
(* C11 *)

AllZero(s) == \A i \in 1..Len(s) : s[i] = R(0)

\* The load forecast cut or padded to the horizon
PaddedTo(f, h) ==
    [i \in 1..h |-> IF i <= Len(f) THEN f[i] ELSE f[Len(f)]]

\* C11: optimize_energy_schedule never lets an exception reach its caller:
\* every call returns a result, empty forecasts, short tariffs and capacity
\* 0 included; a success = false result has an all-zero battery_schedule,
\* the horizon-padded load forecast as grid_schedule, objective_value 0 and
\* failed_solves raised by 1; every other result has success = true and
\* leaves failed_solves alone.
C11_NeverPropagates ==
    (call.op = "optimize_energy_schedule" /\ pc # "called") =>
        /\ pc = "returned"
        /\ ~ret.success =>
              /\ AllZero(ret.battery_schedule)
              /\ ret.grid_schedule = PaddedTo(call.load_forecast, call.horizon_hours)
              /\ ret.objective_value = R(0)
              /\ failed_solves = 1
        /\ ret.success => failed_solves = 0

-----------------------------------------------------------------------------
(* The heuristic's loop, hour by hour: the arguments are drawn by Init, with
   forecasts and tariff as long as the horizon and a battery of positive
   capacity *)

\* Against a load of 30: a deficit of 30, a surplus of 30 and a surplus of 60
SolarPowers == {R(0), R(60), R(90)}
LoadPowers == {R(30)}
\* Rates of 20 (below every surplus and deficit) and of 50 (between them)
PositiveCapacities == {R(40), R(100)}
\* The ends of [0, 100], a mid value, and one just under the 90 % ceiling
SocRange == {R(0), R(50), R(89), R(100)}

HeuristicArgs ==
    UNION {[op : {"optimize_energy_schedule"},
            solar_forecast : [1..h -> SolarPowers],
            load_forecast : [1..h -> LoadPowers],
            battery_capacity : PositiveCapacities,
            initial_soc : SocRange,
            grid_tariff : {NoTariff} \cup {Tariff(t) : t \in [1..h -> PositivePrices]},
            horizon_hours : {h}] : h \in 0..MaxHorizon}

InitHeuristic ==
    /\ InitObjects
    /\ pc = "called"
    /\ call \in HeuristicArgs
    /\ ret = None

SpecHeuristic == InitHeuristic /\ [][OptimizeEnergySchedule]_vars

\* The tariff the call in `call` optimises against
CallTariff ==
    IF call.grid_tariff.is_none
    THEN generate_default_tariff(call.horizon_hours)
    ELSE call.grid_tariff.value

\* The locals of _solve_simple_heuristic after the first k iterations of its
\* loop, for the call in `call`
LoopAfter(k) ==
    HeuristicLoop([battery_schedule |-> <<>>, grid_schedule |-> <<>>,
                   soc |-> call.initial_soc, total_cost |-> R(0),
                   baseline_cost |-> R(0), raised |-> FALSE],
                  0, pad_forecast(call.solar_forecast, call.horizon_hours),
                  pad_forecast(call.load_forecast, call.horizon_hours),
                  call.battery_capacity, CallTariff, k)

-----------------------------------------------------------------------------
(* C12 *)

InPercentRange(x) == Le(R(0), x) /\ Le(x, R(100))

\* C12: with a battery capacity > 0 and an initial SOC in [0, 100], the SOC
\* the heuristic carries through its loop is in [0, 100] after every hour,
\* whatever the forecasts and the tariff.
C12_SocStaysInRange ==
    (/\ Returned("optimize_energy_schedule")
     /\ Lt(R(0), call.battery_capacity)
     /\ InPercentRange(call.initial_soc)) =>
        \A k \in 0..call.horizon_hours :
            \A after \in {LoopAfter(k)} :
                ~after.raised => InPercentRange(after.soc)

\* a call that has charged the battery in one hour and discharged it in
\* another, leaving the SOC strictly between the initial value and 100
C12_Witness ==
    /\ Returned("optimize_energy_schedule")
    /\ ret.success
    /\ Lt(R(0), call.battery_capacity)
    /\ InPercentRange(call.initial_soc)
    /\ \E i, j \in 1..call.horizon_hours :
          /\ Lt(R(0), ret.battery_schedule[i])
          /\ Lt(ret.battery_schedule[j], R(0))
    /\ LoopAfter(call.horizon_hours).soc # call.initial_soc

-----------------------------------------------------------------------------
(* C13 *)

\* The cost of the call in `call` without a battery: every hour's deficit
\* max(0, load - solar), bought at that hour's price
BaselineCost ==
    SumRat([i \in 1..call.horizon_hours |->
               Mul(Max2(R(0), Sub(PaddedTo(call.load_forecast, call.horizon_hours)[i],
                                  PaddedTo(call.solar_forecast, call.horizon_hours)[i])),
                   CallTariff[i])])

SavingsOver(baseline) ==
    Mul(Div(Sub(baseline, ret.objective_value), baseline), R(100))

\* C13 as stated: in every result of a call whose tariff prices every hour
\* of the horizon, cost_savings_pct is 0 when the baseline cost is 0 and
\* (baseline - objective_value) / baseline * 100 otherwise.
C13_SavingsOfEveryResult ==
    (/\ Returned("optimize_energy_schedule")
     /\ Len(CallTariff) >= call.horizon_hours) =>
        \A baseline \in {BaselineCost} :
            ret.cost_savings_pct =
                IF baseline = R(0) THEN R(0) ELSE SavingsOver(baseline)

\* C13, amended: in every result with success = true, cost_savings_pct is 0
\* when the baseline cost is 0 or negative, and
\* (baseline - objective_value) / baseline * 100 when it is positive.
C13_SavingsOfHeuristicResult ==
    (Returned("optimize_energy_schedule") /\ ret.success) =>
        \A baseline \in {BaselineCost} :
            ret.cost_savings_pct =
                IF Le(baseline, R(0)) THEN R(0) ELSE SavingsOver(baseline)

\* a result whose battery has cut a positive baseline cost, but not to zero
C13_Witness ==
    /\ Returned("optimize_energy_schedule")
    /\ ret.success
    /\ Lt(R(0), BaselineCost)
    /\ Lt(R(0), ret.cost_savings_pct)
    /\ Lt(ret.cost_savings_pct, R(100))
    /\ ret.cost_savings_pct = SavingsOver(BaselineCost)

-----------------------------------------------------------------------------
(* One SolverBridge over several calls *)

\* SolverBridge.get_performance_metrics
get_performance_metrics(b) ==
    LET avg_solve_time == IF b.solve_count > 0
                          THEN Rat(b.total_solve_time, b.solve_count)
                          ELSE R(0)
        success_rate == IF b.solve_count > 0
                        THEN Mul(Rat(b.solve_count - b.failed_solves, b.solve_count),
                                 R(100))
                        ELSE R(0)
    IN [total_solves |-> b.solve_count,
        failed_solves |-> b.failed_solves,
        success_rate_pct |-> success_rate,
        avg_solve_time_ms |-> avg_solve_time,
        total_solve_time_s |-> Rat(b.total_solve_time, 1000)]

\* A request that discharges in its dear first hour and charges in its
\* second; the same from a battery above the ceiling; the same with a
\* battery of capacity 0, which the heuristic cannot divide by; the same
\* without a solar forecast
PlainRequest ==
    [op |-> "optimize_energy_schedule",
     solar_forecast |-> <<R(0), R(60)>>,
     load_forecast |-> <<R(60), R(0)>>,
     battery_capacity |-> R(100),
     initial_soc |-> R(50),
     grid_tariff |-> Tariff(<<R(10), R(2)>>),
     horizon_hours |-> 2]

SolverRequests ==
    {PlainRequest,
     [PlainRequest EXCEPT !.initial_soc = R(92)],
     [PlainRequest EXCEPT !.battery_capacity = R(0)],
     [PlainRequest EXCEPT !.solar_forecast = <<>>]}

OptimizeCall ==
    /\ ncalls < MaxCalls
    /\ \E a \in SolverRequests, elapsed \in SolveTimes :
         \E r \in {optimize_energy_schedule(Bridge, a, elapsed)} :
         /\ solve_count' = r.b.solve_count
         /\ total_solve_time' = r.b.total_solve_time
         /\ failed_solves' = r.b.failed_solves
         /\ optimize_history' = Append(optimize_history, Solve(a, r))
         /\ call' = a
         /\ pc' = r.outcome
         /\ ret' = r.result
    /\ ncalls' = ncalls + 1
    /\ UNCHANGED <<guardVars, serviceVars>>

GetPerformanceMetrics ==
    /\ ncalls < MaxCalls
    /\ call' = [op |-> "get_performance_metrics"]
    /\ ret' = get_performance_metrics(Bridge)
    /\ pc' = "returned"
    /\ ncalls' = ncalls + 1
    /\ UNCHANGED <<guardVars, solverVars, serviceVars>>

NextSolver ==
    \/ OptimizeCall
    \/ GetPerformanceMetrics

SpecSolver == Init /\ [][NextSolver]_vars

-----------------------------------------------------------------------------
(* C14 *)

SameSchedule(r1, r2) ==
    /\ r1.battery_schedule = r2.battery_schedule
    /\ r1.grid_schedule = r2.grid_schedule
    /\ r1.objective_value = r2.objective_value
    /\ r1.cost_savings_pct = r2.cost_savings_pct

\* A SolverBridge just constructed
NewBridge == [solve_count |-> 0, total_solve_time |-> 0, failed_solves |-> 0]

\* C14: optimize_energy_schedule is deterministic and carries no SOC from
\* call to call: any two calls made on one SolverBridge with the same
\* arguments, whatever was called between them, end the same way and return
\* the same battery_schedule, grid_schedule, objective_value and
\* cost_savings_pct; and so does the same call on a new SolverBridge.
C14_Deterministic ==
    \A i, j \in 1..Len(optimize_history) :
        \A first \in {optimize_history[i]}, second \in {optimize_history[j]},
           other \in {optimize_energy_schedule(NewBridge, optimize_history[i].args, 1)} :
            first.args = second.args =>
                /\ first.outcome = second.outcome
                /\ first.outcome = other.outcome
                /\ first.outcome = "returned" =>
                      /\ SameSchedule(first.result, second.result)
                      /\ SameSchedule(first.result, other.result)

\* the same request solved twice with a different request solved in between,
\* the battery neither idle nor left at its initial SOC by the request
C14_Witness ==
    /\ Len(optimize_history) = 3
    /\ optimize_history[1].args = PlainRequest
    /\ optimize_history[3].args = PlainRequest
    /\ optimize_history[2].args # PlainRequest
    /\ optimize_history[2].outcome = "returned"
    /\ optimize_history[2].result.success
    /\ optimize_history[3].result.success
    /\ optimize_history[3].result.battery_schedule = <<R(-30), R(50)>>
    /\ solve_count = 3

-----------------------------------------------------------------------------
(* C17 *)

\* The calls of optimize_history that returned a result with success = b
ReturnedWith(b) ==
    {i \in 1..Len(optimize_history) :
        /\ optimize_history[i].outcome = "returned"
        /\ optimize_history[i].result.success = b}

\* C17: the metrics get_performance_metrics returns count the calls:
\* total_solves is the number of optimize_energy_schedule calls made so far,
\* failed_solves the number of them that returned success = false, and
\* success_rate_pct the share of total_solves that returned success = true,
\* times 100, so a value in [0, 100], and 0 when no call was made.
C17_MetricsCountCalls ==
    Returned("get_performance_metrics") =>
        /\ ret.total_solves = Len(optimize_history)
        /\ ret.failed_solves = Cardinality(ReturnedWith(FALSE))
        /\ ret.success_rate_pct =
              IF ret.total_solves = 0
              THEN R(0)
              ELSE Mul(Rat(Cardinality(ReturnedWith(TRUE)), ret.total_solves), R(100))
        /\ Le(R(0), ret.success_rate_pct)
        /\ Le(ret.success_rate_pct, R(100))

-----------------------------------------------------------------------------
(* The benchmark demonstration of solver_bridge.py: its 24-hour forecasts,
   run as in the demonstration and with other batteries and horizons *)

Rs(s) == [i \in 1..Len(s) |-> R(s[i])]

DemoSolar ==
    Rs(<<0, 0, 0, 0, 0, 10, 50, 120, 180, 220, 240, 230,
         220, 200, 160, 100, 40, 10, 0, 0, 0, 0, 0, 0>>)
DemoLoad ==
    Rs(<<80, 70, 65, 60, 55, 60, 90, 140, 180, 200, 210, 220,
         230, 220, 210, 200, 180, 160, 140, 120, 110, 100, 90, 85>>)

DemoCapacities == {R(100), R(250), R(500), R(1000)}
DemoSocs == {R(10 * n) : n \in 0..10}
DemoHorizons == {12, 24, 36}

\* A tariff of the caller's own, for the longest horizon: dear every second hour
DemoTariff == [i \in 1..36 |-> IF i % 2 = 0 THEN R(12) ELSE R(3)]

DemoArgs ==
    [op : {"optimize_energy_schedule"},
     solar_forecast : {DemoSolar},
     load_forecast : {DemoLoad},
     battery_capacity : DemoCapacities,
     initial_soc : DemoSocs,
     grid_tariff : {NoTariff, Tariff(DemoTariff)},
     horizon_hours : DemoHorizons]

\* The call the demonstration makes
DemoCall ==
    [op |-> "optimize_energy_schedule",
     solar_forecast |-> DemoSolar,
     load_forecast |-> DemoLoad,
     battery_capacity |-> R(500),
     initial_soc |-> R(50),
     grid_tariff |-> NoTariff,
     horizon_hours |-> 24]

InitDemo ==
    /\ InitObjects
    /\ pc = "called"
    /\ call \in DemoArgs
    /\ ret = None

SpecDemo == InitDemo /\ [][OptimizeEnergySchedule]_vars

-----------------------------------------------------------------------------
(* C15 *)

\* The hours of the evening peak, counted from 0
EveningPeak == 18..21

\* C15: the demonstration's call (solar peaking at 240, load peaking at 230,
\* capacity 500, initial SOC 50, default tariff, 24 hours) returns a schedule
\* that charges the battery in every hour with solar > load, discharges it in
\* every hour from 18 to 21 that has a deficit and finds the carried SOC
\* above 20, and saves cost: cost_savings_pct > 0.
C15_DemoScenario ==
    (Returned("optimize_energy_schedule") /\ call = DemoCall) =>
        /\ ret.success
        /\ \A hour \in 0..23 :
              Lt(DemoLoad[hour + 1], DemoSolar[hour + 1]) =>
                  Lt(R(0), ret.battery_schedule[hour + 1])
        /\ \A hour \in EveningPeak :
              (/\ Lt(DemoSolar[hour + 1], DemoLoad[hour + 1])
               /\ Lt(R(20), LoopAfter(hour).soc)) =>
                  Lt(ret.battery_schedule[hour + 1], R(0))
        /\ Lt(R(0), ret.cost_savings_pct)

\* the demonstration's call has returned, having charged at 10:00 and
\* discharged at 18:00
C15_Witness ==
    /\ Returned("optimize_energy_schedule")
    /\ call = DemoCall
    /\ Lt(R(0), ret.battery_schedule[11])
    /\ Lt(R(20), LoopAfter(18).soc)
    /\ Lt(ret.battery_schedule[19], R(0))
    /\ Lt(R(0), ret.cost_savings_pct)

-----------------------------------------------------------------------------
(* One CarbonReporter over several calls, with time passing between them *)

\* The clock stops once this many hours have passed
MaxHours == 36

GridTypes == {"mixed_grid", "coal", "hydro"}

\* Energies of a period: the two of the benchmark's tests, a period without
\* any energy, one without grid consumption and one without renewables
Reading(grid, solar, wind, battery) ==
    [grid_consumption |-> R(grid), solar_generation |-> R(solar),
     wind_generation |-> R(wind), battery_discharge |-> R(battery)]

EnergyReadings ==
    {Reading(100, 50, 0, 0), Reading(100, 30, 20, 10), Reading(0, 0, 0, 0),
     Reading(0, 50, 0, 0), Reading(100, 0, 0, 0)}

Reporter == [base_intensity |-> base_intensity, metrics_history |-> metrics_history]

InitCarbon ==
    /\ InitKernel
    /\ \E grid_type \in GridTypes : InitServices(grid_type, WEBHOOK)
    /\ pc = "idle"
    /\ call = [op |-> "__init__"]
    /\ ret = None

\* Half a day passes
Tick ==
    /\ now < MaxHours
    /\ now' = now + 12
    /\ UNCHANGED <<guardVars, solverVars, reporterVars, brokerVars, pc, call, ret, ncalls>>

CalculateEmissions ==
    /\ ncalls < MaxCalls
    /\ \E reading \in EnergyReadings :
         \E r \in {calculate_emissions(Reporter, reading.grid_consumption,
                                       reading.solar_generation, reading.wind_generation,
                                       reading.battery_discharge, now)} :
         /\ metrics_history' = r.r.metrics_history
         /\ call' = [op |-> "calculate_emissions"] @@ reading
         /\ ret' = r.metrics
    /\ pc' = "returned"
    /\ ncalls' = ncalls + 1
    /\ UNCHANGED <<guardVars, solverVars, base_intensity, brokerVars, now>>

GenerateDailyReport ==
    /\ ncalls < MaxCalls
    /\ call' = [op |-> "generate_daily_report"]
    /\ ret' = generate_daily_report(Reporter, now)
    /\ pc' = "returned"
    /\ ncalls' = ncalls + 1
    /\ UNCHANGED <<guardVars, solverVars, serviceVars>>

NextCarbon ==
    \/ CalculateEmissions
    \/ GenerateDailyReport
    \/ Tick

SpecCarbon == InitCarbon /\ [][NextCarbon]_vars

-----------------------------------------------------------------------------
(* C18 *)

-----------------------------------------------------------------------------
(* One AlertBroker over several calls, with time passing between them *)

NoMetadata == [is_none |-> TRUE, value |-> {}]
Metadata(m) == [is_none |-> FALSE, value |-> m]

\* The alerts of the benchmark, and one of low severity
AlertRequest(alert_type, severity, message, metadata) ==
    [alert_type |-> alert_type, severity |-> severity, message |-> message,
     metadata |-> metadata]

AlertRequests ==
    {AlertRequest("battery_low", MEDIUM, "Battery SOC below 30%", NoMetadata),
     AlertRequest("peak_demand_warning", HIGH, "Peak demand in 15 minutes", NoMetadata),
     AlertRequest("grid_overload", CRITICAL, "Grid capacity exceeded",
                  Metadata({<<"load_kw", 520>>})),
     AlertRequest("anomaly_detected", LOW, "Unusual load pattern", NoMetadata)}

\* What the services the broker calls may do: all succeed, Redis fails, MQTT
\* fails, the webhook fails
Environments ==
    {[redis_ok |-> TRUE, mqtt_ok |-> TRUE, post_ok |-> TRUE],
     [redis_ok |-> FALSE, mqtt_ok |-> TRUE, post_ok |-> TRUE],
     [redis_ok |-> TRUE, mqtt_ok |-> FALSE, post_ok |-> TRUE],
     [redis_ok |-> TRUE, mqtt_ok |-> TRUE, post_ok |-> FALSE]}

Broker ==
    [webhook_url |-> webhook_url, redis |-> redis, mqtt_published |-> mqtt_published,
     escalated |-> escalated, webhook_posts |-> webhook_posts]

\* A broker with a webhook, or without one
InitAlert ==
    /\ InitKernel
    /\ \E url \in {WEBHOOK, ""} : InitServices("mixed_grid", url)
    /\ pc = "idle"
    /\ call = [op |-> "__init__"]
    /\ ret = None

CreateAlert ==
    /\ ncalls < MaxCalls
    /\ \E request \in AlertRequests, env \in Environments :
         \E r \in {create_alert(Broker, request.alert_type, request.severity,
                                request.message, request.metadata, now, env)} :
         /\ redis' = r.b.redis
         /\ mqtt_published' = r.b.mqtt_published
         /\ escalated' = r.b.escalated
         /\ webhook_posts' = r.b.webhook_posts
         /\ call' = [op |-> "create_alert", env |-> env] @@ request
         /\ pc' = r.outcome
         /\ ret' = r.alert
    /\ ncalls' = ncalls + 1
    /\ UNCHANGED <<guardVars, solverVars, reporterVars, webhook_url, now>>

NextAlert ==
    \/ CreateAlert
    \/ Tick

SpecAlert == InitAlert /\ [][NextAlert]_vars

-----------------------------------------------------------------------------
(* C19 *)

Last(s) == s[Len(s)]

\* C19: create_alert hands an alert to the escalation if and only if its
\* severity is CRITICAL.  A call that returns has stored its alert in Redis
\* and published it over MQTT; for a severity of LOW, MEDIUM or HIGH nothing
\* is escalated and nothing posted to the webhook; for CRITICAL the alert is
\* escalated once, and whether the webhook post succeeds or fails the alert
\* is created and returned all the same.
C19_EscalatesIffCritical ==
    [][(CallStep("create_alert") /\ pc' = "returned") =>
          /\ ret'.severity = call'.severity
          /\ ret'.status = "active"
          /\ \E entry \in redis' : entry.value = json_dumps(ret')
          /\ mqtt_published' = Append(mqtt_published,
                                      [topic |-> <<"cmorp/alerts", call'.severity>>,
                                       payload |-> json_dumps(ret')])
          /\ IF call'.severity = CRITICAL
             THEN escalated' = Append(escalated, ret')
             ELSE /\ escalated' = escalated
                  /\ webhook_posts' = webhook_posts
          /\ Len(webhook_posts') > Len(webhook_posts) =>
                /\ call'.severity = CRITICAL
                /\ webhook_posts' = Append(webhook_posts, Last(webhook_posts'))
      ]_vars

\* a CRITICAL alert created and returned although the webhook post failed,
\* after an alert of lower severity that was not escalated
C19_Witness ==
    /\ Returned("create_alert")
    /\ call.severity = CRITICAL
    /\ ~call.env.post_ok
    /\ ret.severity = CRITICAL
    /\ Len(mqtt_published) = 2
    /\ escalated = <<ret>>
    /\ Len(webhook_posts) = 1
    /\ ~webhook_posts[1].delivered

-----------------------------------------------------------------------------
(* C20 *)

\* C20, the surplus rule: in an hour with net = solar - load > 0 that finds
\* the carried SOC below 90, the battery entry is min(net, 0.5 * capacity,
\* (90 - SOC) / 100 * capacity), the grid entry is the rest of the surplus,
\* and the SOC rises by entry / capacity * 100 * 0.95; in a surplus hour that
\* finds the SOC at 90 or above, the battery entry is 0, the grid entry is
\* net and the SOC stays; and no surplus hour adds to the cost that becomes
\* objective_value.
C20_SurplusRule ==
    (Returned("optimize_energy_schedule") /\ ret.success) =>
        /\ ret.objective_value = LoopAfter(call.horizon_hours).total_cost
        /\ \A hour \in 0..(call.horizon_hours - 1) :
              \A before \in {LoopAfter(hour)}, after \in {LoopAfter(hour + 1)},
                 capacity \in {call.battery_capacity},
                 net \in {Sub(PaddedTo(call.solar_forecast, call.horizon_hours)[hour + 1],
                              PaddedTo(call.load_forecast, call.horizon_hours)[hour + 1])},
                 battery \in {ret.battery_schedule[hour + 1]},
                 grid \in {ret.grid_schedule[hour + 1]} :
                  Lt(R(0), net) =>
                      /\ after.total_cost = before.total_cost
                      /\ IF Lt(before.soc, R(90))
                         THEN /\ battery =
                                    Min2(net, Min2(Mul(Rat(1, 2), capacity),
                                                   Mul(Div(Sub(R(90), before.soc), R(100)),
                                                       capacity)))
                              /\ grid = Sub(net, battery)
                              /\ after.soc =
                                    Add(before.soc,
                                        Mul(Mul(Div(battery, capacity), R(100)), Rat(19, 20)))
                         ELSE /\ battery = R(0)
                              /\ grid = net
                              /\ after.soc = before.soc

SurplusAt(hour) ==
    Lt(call.load_forecast[hour], call.solar_forecast[hour])

\* a surplus hour that finds the SOC above 90 and exports everything, a dear
\* deficit hour that discharges, and a surplus hour that charges up to the
\* 90 % ceiling, leaving the SOC below it by the efficiency loss
C20_Witness ==
    /\ Returned("optimize_energy_schedule")
    /\ ret.success
    /\ call.horizon_hours = 3
    /\ SurplusAt(1) /\ ~SurplusAt(2) /\ SurplusAt(3)
    /\ Le(R(90), call.initial_soc)
    /\ ret.battery_schedule[1] = R(0)
    /\ ret.grid_schedule[1] = Sub(call.solar_forecast[1], call.load_forecast[1])
    /\ Lt(ret.battery_schedule[2], R(0))
    /\ Lt(R(0), ret.battery_schedule[3])
    /\ Lt(ret.battery_schedule[3], Mul(Rat(1, 2), call.battery_capacity))
    /\ Lt(R(0), ret.grid_schedule[3])
    /\ Lt(LoopAfter(2).soc, LoopAfter(3).soc)
    /\ Lt(LoopAfter(3).soc, R(90))

-----------------------------------------------------------------------------
(* C21 *)

\* The mean of the tariff over the hours of the horizon
MeanOverHorizon == Div(SumRat(SubSeq(CallTariff, 1, call.horizon_hours)), R(call.horizon_hours))

\* C21, the deficit rule: in an hour with net = solar - load <= 0 the battery
\* is discharged only if tariff[h] > 1.2 * mean(tariff over the horizon) and
\* the carried SOC > 20, and then by min(deficit, 0.5 * capacity,
\* (SOC - 20) / 100 * capacity): the battery entry is the negated amount, the
\* grid entry is deficit - discharge, the SOC falls by
\* discharge / capacity * 100 / 0.95 and the cost rises by
\* (deficit - discharge) * tariff[h]; in every other deficit hour the battery
\* entry is 0, the grid entry is the deficit and the cost rises by
\* deficit * tariff[h].
C21_DeficitRule ==
    (Returned("optimize_energy_schedule") /\ ret.success) =>
        \A hour \in 0..(call.horizon_hours - 1) :
            \A before \in {LoopAfter(hour)}, after \in {LoopAfter(hour + 1)},
               capacity \in {call.battery_capacity},
               price \in {CallTariff[hour + 1]},
               net \in {Sub(PaddedTo(call.solar_forecast, call.horizon_hours)[hour + 1],
                            PaddedTo(call.load_forecast, call.horizon_hours)[hour + 1])},
               battery \in {ret.battery_schedule[hour + 1]},
               grid \in {ret.grid_schedule[hour + 1]} :
                Le(net, R(0)) =>
                    \A deficit \in {Neg(net)} :
                    IF Lt(Mul(Rat(6, 5), MeanOverHorizon), price) /\ Lt(R(20), before.soc)
                    THEN \E discharge \in
                             {Min2(deficit, Min2(Mul(Rat(1, 2), capacity),
                                                 Mul(Div(Sub(before.soc, R(20)), R(100)),
                                                     capacity)))} :
                             /\ battery = Neg(discharge)
                             /\ grid = Sub(deficit, discharge)
                             /\ capacity.num # 0
                             /\ after.soc =
                                   Sub(before.soc,
                                       Div(Mul(Div(discharge, capacity), R(100)), Rat(19, 20)))
                             /\ after.total_cost =
                                   Add(before.total_cost, Mul(Sub(deficit, discharge), price))
                    ELSE /\ battery = R(0)
                         /\ grid = deficit
                         /\ after.soc = before.soc
                         /\ after.total_cost = Add(before.total_cost, Mul(deficit, price))

-----------------------------------------------------------------------------
(* C22 *)

\* The forecast the planner is handed for the caller's forecast f
UsedForecast(f) == pad_forecast(f, call.horizon_hours)

\* A forecast used is f cut or padded to the horizon: of length h, f's first
\* h elements when len(f) >= h, f followed by copies of its last element when
\* len(f) < h
IsPaddingOf(used, f, h) ==
    /\ Len(used) = h
    /\ Len(f) >= h => \A i \in 1..h : used[i] = f[i]
    /\ Len(f) < h =>
          /\ \A i \in 1..Len(f) : used[i] = f[i]
          /\ \A i \in (Len(f) + 1)..h : used[i] = f[Len(f)]

\* What a returned result shows of the forecasts the planner used: the
\* fallback's grid_schedule is the load forecast used, and every hour of a
\* heuristic schedule splits the net power of the forecasts used between
\* battery and grid
ResultFollows(solar, load) ==
    /\ ~ret.success => ret.grid_schedule = load
    /\ ret.success =>
          \A i \in 1..call.horizon_hours :
              \A net \in {Sub(solar[i], load[i])} :
                  IF Lt(R(0), net)
                  THEN Add(ret.battery_schedule[i], ret.grid_schedule[i]) = net
                  ELSE Sub(ret.battery_schedule[i], ret.grid_schedule[i]) = net

\* The call has run, with the caller's lists as they were handed over
PaddingDone ==
    /\ pc = "returned"
    /\ Last(optimize_history).args = call
    /\ IsPaddingOf(UsedForecast(call.solar_forecast), call.solar_forecast, call.horizon_hours)
    /\ IsPaddingOf(UsedForecast(call.load_forecast), call.load_forecast, call.horizon_hours)
    /\ ResultFollows(PaddedTo(call.solar_forecast, call.horizon_hours),
                     PaddedTo(call.load_forecast, call.horizon_hours))

-----------------------------------------------------------------------------
(* C23 *)

\* The locals of _solve_simple_heuristic at the start and after every
\* iteration of its loop: LoopTrace[k + 1] after k iterations
RECURSIVE LoopTraceFrom(_, _, _, _, _)
LoopTraceFrom(acc, hour, solar, load, tariff) ==
    IF hour >= call.horizon_hours
    THEN <<acc>>
    ELSE CHOOSE trace \in
             {<<acc>> \o LoopTraceFrom(next, hour + 1, solar, load, tariff) :
                  next \in {HeuristicStep(acc, hour, solar, load,
                                          call.battery_capacity, tariff)}} :
             TRUE

LoopTrace ==
    LoopTraceFrom([battery_schedule |-> <<>>, grid_schedule |-> <<>>,
                   soc |-> call.initial_soc, total_cost |-> R(0),
                   baseline_cost |-> R(0), raised |-> FALSE],
                  0, pad_forecast(call.solar_forecast, call.horizon_hours),
                  pad_forecast(call.load_forecast, call.horizon_hours), CallTariff)

\* The price of the hour with index i (from 0) of the time-of-use schedule
TimeOfUsePrice(i) ==
    IF (6 <= i % 24 /\ i % 24 < 9) \/ (18 <= i % 24 /\ i % 24 < 22)
    THEN Rat(17, 2)
    ELSE IF 9 <= i % 24 /\ i % 24 < 18
    THEN Rat(13, 2)
    ELSE Rat(9, 2)

\* What a run against the tariff `used` bills and when it discharges
BilledAt(used) ==
    \A solar \in {PaddedTo(call.solar_forecast, call.horizon_hours)},
       load \in {PaddedTo(call.load_forecast, call.horizon_hours)},
       dear \in {Mul(Rat(6, 5), Div(SumRat(used), R(Len(used))))},
       trace \in {LoopTrace} :
        /\ ret.success
        /\ ret.objective_value =
              SumRat([i \in 1..call.horizon_hours |->
                         IF Lt(solar[i], load[i])
                         THEN Mul(ret.grid_schedule[i], used[i])
                         ELSE R(0)])
        /\ \A i \in 1..call.horizon_hours :
              Lt(solar[i], load[i]) =>
                  (Lt(ret.battery_schedule[i], R(0)) <=>
                      (Lt(dear, used[i]) /\ Lt(R(20), trace[i].soc)))

\* C23: when no tariff is supplied, the tariff used has length equal to the
\* horizon and the price of every hour index i depends on i mod 24 only: the
\* peak price 8.5 when 6 <= i mod 24 < 9 or 18 <= i mod 24 < 22, the mid
\* price 6.5 when 9 <= i mod 24 < 18, the off-peak price 4.5 otherwise; a
\* supplied tariff is used unchanged.
C23_TariffUsed ==
    Returned("optimize_energy_schedule") =>
        \A used \in {IF call.grid_tariff.is_none
                     THEN [i \in 1..call.horizon_hours |-> TimeOfUsePrice(i - 1)]
                     ELSE call.grid_tariff.value} :
            /\ CallTariff = used
            /\ BilledAt(used)

\* a run of 36 hours without a tariff of the caller's: the second morning
\* peak, at hour 30, is priced like the first and discharges the battery
C23_Witness ==
    /\ Returned("optimize_energy_schedule")
    /\ call.grid_tariff.is_none
    /\ call.horizon_hours = 36
    /\ Len(CallTariff) = 36
    /\ CallTariff[31] = Rat(17, 2)
    /\ CallTariff[7] = CallTariff[31]
    /\ Lt(ret.battery_schedule[31], R(0))

-----------------------------------------------------------------------------
(* C24 *)

NonNegative(s) == \A i \in 1..Len(s) : Le(R(0), s[i])

\* C24: for non-negative forecasts and capacity > 0, every entry of the
\* returned grid_schedule is non-negative, every battery_schedule entry is
\* >= 0 in a surplus hour and <= 0 in a deficit hour, and no
\* |battery_schedule[h]| exceeds 0.5 * capacity.
C24_ScheduleSigns ==
    /\ Returned("optimize_energy_schedule")
    /\ NonNegative(call.solar_forecast)
    /\ NonNegative(call.load_forecast)
    /\ Lt(R(0), call.battery_capacity)
    => \A solar \in {PaddedTo(call.solar_forecast, call.horizon_hours)},
          load \in {PaddedTo(call.load_forecast, call.horizon_hours)},
          rate \in {Mul(Rat(1, 2), call.battery_capacity)} :
           \A i \in 1..call.horizon_hours :
               /\ Le(R(0), ret.grid_schedule[i])
               /\ Lt(load[i], solar[i]) => Le(R(0), ret.battery_schedule[i])
               /\ Le(solar[i], load[i]) => Le(ret.battery_schedule[i], R(0))
               /\ Le(ret.battery_schedule[i], rate)
               /\ Le(Neg(rate), ret.battery_schedule[i])

\* a deficit hour discharged at the rate limit, the rest of the deficit
\* drawn from the grid, and a surplus hour charged at the rate limit
C24_Witness ==
    /\ Returned("optimize_energy_schedule")
    /\ ret.success
    /\ Lt(R(0), call.battery_capacity)
    /\ call.horizon_hours = 2
    /\ Len(call.solar_forecast) = 2
    /\ Len(call.load_forecast) = 2
    /\ Lt(call.solar_forecast[1], call.load_forecast[1])
    /\ ret.battery_schedule[1] = Neg(Mul(Rat(1, 2), call.battery_capacity))
    /\ Lt(R(0), ret.grid_schedule[1])
    /\ Lt(call.load_forecast[2], call.solar_forecast[2])
    /\ ret.battery_schedule[2] = Mul(Rat(1, 2), call.battery_capacity)
    /\ Lt(R(0), ret.grid_schedule[2])

-----------------------------------------------------------------------------
(* C25 *)

\* C25: get_statistics is a read-only snapshot: it changes no state of the
\* validator, reports total_constraints as the sum of the registered
\* constraints over all components, components_monitored as the number of
\* component keys, and recent_blocks as the last min(10, n) block records of
\* the history, in the order they were appended.
C25_StatisticsSnapshot ==
    [][CallStep("get_statistics") =>
        /\ constraints' = constraints
        /\ violation_count' = violation_count
        /\ blocked_actions' = blocked_actions
        /\ ret'.total_constraints = TotalConstraints(constraints)
        /\ ret'.components_monitored = Cardinality(DOMAIN constraints)
        /\ ret'.violation_count = violation_count
        /\ ret'.blocked_actions_count = Len(blocked_actions)
        /\ \A n \in {Len(blocked_actions)} :
              \A m \in {IF n < 10 THEN n ELSE 10} :
                  /\ Len(ret'.recent_blocks) = m
                  /\ \A j \in 1..m : ret'.recent_blocks[j] = blocked_actions[n - m + j]
    ]_vars

\* get_statistics after a constraint was added to the battery and one to a
\* new component, and more than ten actions were blocked
C25_Witness ==
    /\ Returned("get_statistics")
    /\ "inverter" \in DOMAIN constraints
    /\ ret.components_monitored = 4
    /\ ret.total_constraints = 7
    /\ Len(blocked_actions) > 10
    /\ ret.blocked_actions_count = Len(blocked_actions)
    /\ Len(ret.recent_blocks) = 10
    /\ ret.recent_blocks[10] = blocked_actions[Len(blocked_actions)]

-----------------------------------------------------------------------------
(* C26 *)

\* C26: after any sequence of add_constraint, validate_action,
\* check_system_health and get_statistics calls on one GuardRail,
\* violation_count equals the number of block records in the history, and
\* neither ever decreases nor is any earlier block record altered or
\* removed.
C26_CountMatchesHistory ==
    [][ /\ violation_count = Len(blocked_actions)
        /\ violation_count' = Len(blocked_actions')
        /\ violation_count' >= violation_count
        /\ Len(blocked_actions') >= Len(blocked_actions)
        /\ \A j \in 1..Len(blocked_actions) : blocked_actions'[j] = blocked_actions[j]
    ]_vars

\* a third constraint was added to the battery, three actions were blocked,
\* and the validate_action that blocked the last of them reported two
\* violations
C26_Witness ==
    /\ Returned("validate_action")
    /\ ~ret.is_valid
    /\ Len(ret.violations) = 2
    /\ Len(constraints["battery"]) = 3
    /\ violation_count = 3
    /\ Len(blocked_actions) = 3
    /\ blocked_actions[3].component = call.component
    /\ blocked_actions[1].component = "battery"

-----------------------------------------------------------------------------
(* C27 *)

\* The critical constraints of the item's component that a parameter present
\* in the item's state violates
PresentCritical(registry, item) ==
    CriticalIdx(Registered(registry, item.component), item.state)

\* C27: check_system_health is not read-only: one call raises
\* violation_count, and appends block records, by exactly the number of
\* critical constraints violated by parameters that are present in the
\* input (which can differ from the report's critical_violations, computed
\* with absent parameters taken as 0), and a second call with the same input
\* counts and records the same violations once more.
C27_HealthCheckRecords ==
    [][CallStep("check_system_health") =>
        \A items \in {call'.system_state}, n \in {Len(blocked_actions)} :
        \A delta \in {SumSeq([k \in 1..Len(items) |->
                                 Len(PresentCritical(constraints, items[k]))])} :
            /\ constraints' = constraints
            /\ violation_count' = violation_count + delta
            /\ Len(blocked_actions') = n + delta
            /\ SubSeq(blocked_actions', 1, n) = blocked_actions
            /\ \A j \in (n + 1)..(n + delta) :
                  \E k \in 1..Len(items) :
                      \E i \in {PresentCritical(constraints, items[k])[x] :
                                   x \in 1..Len(PresentCritical(constraints, items[k]))} :
                          blocked_actions'[j] =
                              ExpectedBlock(items[k].component,
                                            Registered(constraints, items[k].component)[i],
                                            items[k].state)
            /\ (Returned("check_system_health") /\ call.system_state = items) =>
                  /\ ret' = ret
                  /\ n >= delta
                  /\ SubSeq(blocked_actions', n + 1, n + delta)
                        = SubSeq(blocked_actions, n - delta + 1, n)
    ]_vars

\* grid {voltage: 430} checked a second time: every check blocks one action,
\* for the voltage, and reports two critical violations, the absent
\* frequency included
C27_Witness ==
    /\ Returned("check_system_health")
    /\ call.system_state = << Item("grid", [voltage |-> R(430)]) >>
    /\ ncalls = 2
    /\ violation_count = 2
    /\ Len(blocked_actions) = 2
    /\ blocked_actions[1] = blocked_actions[2]
    /\ blocked_actions[2].constraint = "Grid Voltage"
    /\ ret.critical_violations = 2
    /\ ret.critical_violations # Len(PresentCritical(constraints, call.system_state[1]))

-----------------------------------------------------------------------------
(* The planner and the Guard Rail together: a schedule is planned, then the
   SOC the planner carried after one of its hours is put to the Guard Rail *)

\* Initial SOCs: the ends of the Guard Rail's [10, 95], the planner's floor
\* and ceiling, values in between, and one the Guard Rail rejects
PlanSocs == {R(5), R(10), R(20), R(50), R(90), R(95)}

PlanArgs ==
    UNION {[op : {"optimize_energy_schedule"},
            solar_forecast : [1..h -> SolarPowers],
            load_forecast : [1..h -> LoadPowers],
            battery_capacity : {R(100)},
            initial_soc : PlanSocs,
            grid_tariff : {Tariff(t) : t \in [1..h -> PositivePrices]},
            horizon_hours : {h}] : h \in 0..MaxHorizon}

InitPlan ==
    /\ InitObjects
    /\ pc = "called"
    /\ call \in PlanArgs
    /\ ret = None

\* validate_action("battery", {"soc": soc}) for the SOC carried after one of
\* the hours of the schedule just planned
ValidateCarriedSoc ==
    /\ Returned("optimize_energy_schedule")
    /\ ret.success
    /\ \E trace \in {LoopTrace} :
          ValidateActionCall({"battery"},
                             {[soc |-> trace[k].soc] : k \in 1..Len(trace)},
                             MaxCalls)

NextPlan == OptimizeEnergySchedule \/ ValidateCarriedSoc

SpecPlan == InitPlan /\ [][NextPlan]_vars

-----------------------------------------------------------------------------
(* C28 *)

\* The arguments of the planning call
Planned == optimize_history[1].args

\* C28: the planner and the Guard Rail agree on the SOC: for capacity > 0
\* and an initial SOC within the default battery SOC constraint [10, 95],
\* the SOC the heuristic carries after every hour is accepted by the default
\* Guard Rail, validate_action("battery", {soc}) being valid, for every
\* forecast and tariff.
C28_GuardAcceptsCarriedSoc ==
    /\ Returned("validate_action")
    /\ Lt(R(0), Planned.battery_capacity)
    /\ Le(R(10), Planned.initial_soc)
    /\ Le(Planned.initial_soc, R(95))
    => /\ ret.is_valid
       /\ ret.violations = <<>>
       /\ violation_count = 0
       /\ blocked_actions = <<>>

\* the SOC 350/19 (18.4), carried after a discharge from 50, is put to the
\* Guard Rail and accepted
C28_Witness ==
    /\ Returned("validate_action")
    /\ Planned.initial_soc = R(50)
    /\ Planned.horizon_hours >= 1
    /\ Lt(optimize_history[1].result.battery_schedule[1], R(0))
    /\ call.parameters.soc = Rat(350, 19)
    /\ Lt(call.parameters.soc, R(20))
    /\ ret.is_valid

-----------------------------------------------------------------------------
(* C29 *)

\* C29: the soft SOC bounds are respected by the simulation: for capacity
\* > 0 and an initial SOC in [20, 90], the SOC carried after every hour is
\* at most 90 (charging never passes the ceiling) and at least 20 (a
\* discharge, limited to the energy above the floor, never takes the SOC
\* below the floor).
C29_SoftBoundsKept ==
    /\ Returned("optimize_energy_schedule")
    /\ ret.success
    /\ Lt(R(0), call.battery_capacity)
    /\ Le(R(20), call.initial_soc)
    /\ Le(call.initial_soc, R(90))
    => \A trace \in {LoopTrace} :
           \A k \in 1..Len(trace) :
               /\ Le(trace[k].soc, R(90))
               /\ Le(R(20), trace[k].soc)

-----------------------------------------------------------------------------
(* C30 *)

\* What the grid would bill without a battery: every deficit at its hour's
\* price
NoBatteryCost(solar, load, tariff) ==
    SumRat([i \in 1..call.horizon_hours |->
               IF Lt(solar[i], load[i])
               THEN Mul(Sub(load[i], solar[i]), tariff[i])
               ELSE R(0)])

\* C30: for non-negative forecasts and tariffs and capacity > 0, the
\* objective_value of a heuristic result is non-negative and never exceeds
\* the no-battery baseline cost, so cost_savings_pct lies in [0, 100]; it is
\* strictly positive exactly when some hour discharged a positive amount at
\* a positive tariff.
C30_SavingsRange ==
    /\ Returned("optimize_energy_schedule")
    /\ ret.success
    /\ NonNegative(call.solar_forecast)
    /\ NonNegative(call.load_forecast)
    /\ NonNegative(CallTariff)
    /\ Lt(R(0), call.battery_capacity)
    => \A tariff \in {CallTariff} :
       \A baseline \in {NoBatteryCost(PaddedTo(call.solar_forecast, call.horizon_hours),
                                      PaddedTo(call.load_forecast, call.horizon_hours),
                                      tariff)} :
           /\ Le(R(0), ret.objective_value)
           /\ Le(ret.objective_value, baseline)
           /\ Le(R(0), ret.cost_savings_pct)
           /\ Le(ret.cost_savings_pct, R(100))
           /\ Lt(R(0), ret.cost_savings_pct) <=>
                 \E i \in 1..call.horizon_hours :
                     Lt(ret.battery_schedule[i], R(0)) /\ Lt(R(0), tariff[i])

\* a dear deficit hour served in part by the battery and a cheap one billed
\* in full: the saving lies strictly between 0 and 100
C30_Witness ==
    /\ Returned("optimize_energy_schedule")
    /\ ret.success
    /\ NonNegative(CallTariff)
    /\ Lt(R(0), call.battery_capacity)
    /\ call.horizon_hours = 2
    /\ Lt(ret.battery_schedule[1], R(0))
    /\ Lt(R(0), ret.grid_schedule[1])
    /\ ret.battery_schedule[2] = R(0)
    /\ Lt(R(0), ret.grid_schedule[2])
    /\ Lt(R(0), ret.objective_value)
    /\ Lt(R(0), ret.cost_savings_pct)
    /\ Lt(ret.cost_savings_pct, R(100))

====
